---- MODULE Spec2Model ----
(***************************************************************************)
(* Profile filter of resume_builder/profile_manager.py.                    *)
(*                                                                         *)
(* Python values live in a heap of mutable containers (lists and dicts)    *)
(* addressed by position; strings, integers and None are immediate.  A     *)
(* value held in a variable or in a container is either an immediate or a  *)
(* reference.  copy.deepcopy allocates new containers, a subscript         *)
(* assignment rewrites one container in place, so aliasing between the     *)
(* caller's document and what the filter returns is visible in the state.  *)
(***************************************************************************)
EXTENDS Integers, Sequences, FiniteSets, TLC

(***************************************************************************)
(* Python values                                                           *)
(***************************************************************************)
PyNone == [t |-> "none"]
PyStr(s) == [t |-> "str", s |-> s]
PyInt(i) == [t |-> "int", i |-> i]
PyList(l) == [t |-> "list", l |-> l]
PyDict(d) == [t |-> "dict", d |-> d]
Ref(a) == [t |-> "ref", a |-> a]

EmptyMap == [k \in {} |-> PyNone]

IsImm(v) == v.t \in {"none", "str", "int"}

(***************************************************************************)
(* The heap.  A structure built in one go (a parsed file, one deepcopy)    *)
(* gets a fresh number r; its containers are addressed by r and their path *)
(* from the root of the structure.  heap.n counts the structures built,    *)
(* heap.m maps the addresses in use to containers, whose members are       *)
(* immediates or references.                                               *)
(***************************************************************************)
EmptyHeap == [n |-> 0, m |-> EmptyMap]
Addr(r, p) == [r |-> r, p |-> p]
Index(i) == [i |-> i]
Key(k) == [k |-> k]

\* a result of evaluating Python code: the heap after it, the value, and
\* whether an exception (TypeError, AttributeError) escaped
Ret(h, v) == [h |-> h, v |-> v, err |-> FALSE]
Raise(h) == [h |-> h, v |-> PyNone, err |-> TRUE]

\* a list or dict display: one new container whose members exist already
NewObj(h, o) ==
    Ret([n |-> h.n + 1, m |-> (Addr(h.n + 1, <<>>) :> o) @@ h.m],
        Ref(Addr(h.n + 1, <<>>)))

\* the keys of a dict in iteration order
RECURSIVE KeySeq(_)
KeySeq(ks) ==
    IF ks = {} THEN <<>>
    ELSE LET k == CHOOSE x \in ks : TRUE IN <<k>> \o KeySeq(ks \ {k})

(***************************************************************************)
(* Trees: a value written out in full, as a parser or Python's == sees it  *)
(***************************************************************************)
\* the paths to the containers of a tree
RECURSIVE Nodes(_)
Nodes(t) ==
    IF IsImm(t) THEN {}
    ELSE IF t.t = "list"
    THEN {<<>>} \cup UNION {{<<Index(i)>> \o p : p \in Nodes(t.l[i])} : i \in 1..Len(t.l)}
    ELSE {<<>>} \cup UNION {{<<Key(k)>> \o p : p \in Nodes(t.d[k])} : k \in DOMAIN t.d}

\* the subtree at a path
RECURSIVE At(_, _)
At(t, p) ==
    IF p = <<>> THEN t
    ELSE IF t.t = "list" THEN At(t.l[Head(p).i], Tail(p))
    ELSE At(t.d[Head(p).k], Tail(p))

\* the container for the node at path p of tree t, in the structure r
Member(c, r, p) == IF IsImm(c) THEN c ELSE Ref(Addr(r, p))
Container(t, r, p) ==
    LET n == At(t, p) IN
    IF n.t = "list"
    THEN PyList([i \in 1..Len(n.l) |-> Member(n.l[i], r, p \o <<Index(i)>>)])
    ELSE PyDict([k \in DOMAIN n.d |-> Member(n.d[k], r, p \o <<Key(k)>>)])

\* allocate the containers of a tree
Build(h, t) ==
    IF IsImm(t) THEN Ret(h, t)
    ELSE LET r == h.n + 1
             new == [a \in {Addr(r, p) : p \in Nodes(t)} |-> Container(t, r, a.p)]
         IN Ret([n |-> r, m |-> new @@ h.m], Ref(Addr(r, <<>>)))

(***************************************************************************)
(* Reading the heap                                                        *)
(***************************************************************************)
\* the tree a value denotes (what Python's == compares)
RECURSIVE Val(_, _)
Val(h, v) ==
    IF v.t # "ref" THEN v
    ELSE LET o == h.m[v.a] IN
         IF o.t = "list"
         THEN PyList([i \in 1..Len(o.l) |-> Val(h, o.l[i])])
         ELSE PyDict([k \in DOMAIN o.d |-> Val(h, o.d[k])])

\* the containers reachable from a value
RECURSIVE Reach(_, _)
Reach(h, v) ==
    IF v.t # "ref" THEN {}
    ELSE LET o == h.m[v.a] IN
         {v.a} \cup
         (IF o.t = "list"
          THEN UNION {Reach(h, o.l[i]) : i \in 1..Len(o.l)}
          ELSE UNION {Reach(h, o.d[k]) : k \in DOMAIN o.d})

IsDict(h, v) == v.t = "ref" /\ h.m[v.a].t = "dict"
IsList(h, v) == v.t = "ref" /\ h.m[v.a].t = "list"

\* the members of a list, the mapping of a dict
Elems(h, v) == h.m[v.a].l
Items(h, v) == h.m[v.a].d

\* bool(v)
Truthy(h, v) ==
    CASE v.t = "none" -> FALSE
      [] v.t = "str" -> v.s # ""
      [] v.t = "int" -> v.i # 0
      [] OTHER -> IF IsList(h, v) THEN Elems(h, v) # <<>>
                  ELSE DOMAIN Items(h, v) # {}

\* key in d, for a dict d
HasKey(h, v, k) == k \in DOMAIN Items(h, v)
\* d.get(k, default)
Get(h, v, k, default) == IF HasKey(h, v, k) THEN Items(h, v)[k] ELSE default
\* d[k] = x, in place
SetKey(h, v, k, x) ==
    [h EXCEPT !.m[v.a] = PyDict((k :> x) @@ @.d)]

(***************************************************************************)
(* copy.deepcopy: a new structure with the same tree.  Documents are trees *)
(* (a parsed YAML/JSON file without anchors), so the memo table of         *)
(* deepcopy never meets a container twice.                                 *)
(***************************************************************************)
deepcopy(h, v) == Build(h, Val(h, v))

(***************************************************************************)
(* Iteration, sets and slices                                              *)
(***************************************************************************)
\* the characters of a string; the strings the model places where the code
\* iterates or slices are "", "x" and "xy", those it matches against a
\* pattern are the dates, addresses and links listed here
Chars(s) ==
    CASE s = "" -> <<>>
      [] s = "xy" -> <<"x", "y">>
      [] s = "2023" -> <<"2", "0", "2", "3">>
      [] s = "2023-01" -> <<"2", "0", "2", "3", "-", "0", "1">>
      [] s = "2020-06-15" -> <<"2", "0", "2", "0", "-", "0", "6", "-", "1", "5">>
      [] s = "Present" -> <<"P", "r", "e", "s", "e", "n", "t">>
      [] s = "2023-19-39" -> <<"2", "0", "2", "3", "-", "1", "9", "-", "3", "9">>
      [] s = "2023\n" -> <<"2", "0", "2", "3", "\n">>
      [] s = "01/2023" -> <<"0", "1", "/", "2", "0", "2", "3">>
      [] s = "3023" -> <<"3", "0", "2", "3">>
      [] s = "2023-1" -> <<"2", "0", "2", "3", "-", "1">>
      [] s = "a@b.co" -> <<"a", "@", "b", ".", "c", "o">>
      [] s = "a@b.c" -> <<"a", "@", "b", ".", "c">>
      [] s = "a-at-b" -> <<"a", "-", "a", "t", "-", "b">>
      [] s = "https://x.y/p" -> <<"h", "t", "t", "p", "s", ":", "/", "/", "x", ".", "y", "/", "p">>
      [] s = "http://x.y:80" -> <<"h", "t", "t", "p", ":", "/", "/", "x", ".", "y", ":", "8", "0">>
      [] s = "ftp://x.y" -> <<"f", "t", "p", ":", "/", "/", "x", ".", "y">>
      [] s = "x.y" -> <<"x", ".", "y">>
      [] OTHER -> <<s>>

\* s[:m] for a string and m > 0
StrPrefix(s, m) == IF s = "xy" /\ m = 1 THEN "x" ELSE s

\* for x in v: a list yields its elements, a dict its keys, a string its
\* characters; None and integers are not iterable
Iterable(h, v) == v.t \in {"ref", "str"}
Iter(h, v) ==
    IF v.t = "str" THEN [i \in 1..Len(Chars(v.s)) |-> PyStr(Chars(v.s)[i])]
    ELSE IF IsList(h, v) THEN Elems(h, v)
    ELSE LET ks == KeySeq(DOMAIN Items(h, v)) IN [i \in 1..Len(ks) |-> PyStr(ks[i])]

Range(s) == {s[i] : i \in 1..Len(s)}

\* set(v) needs hashable members: lists and dicts are not
Hashable(s) == \A i \in 1..Len(s) : s[i].t # "ref"

ALL == PyStr("all")

(***************************************************************************)
(* Sequencing: evaluate F on the heap and value of r, unless an exception  *)
(* escaped from r, which then escapes from the whole                       *)
(***************************************************************************)
Then(r, F(_, _)) == IF r.err THEN Raise(r.h) ELSE F(r.h, r.v)

(***************************************************************************)
(* filter_items                                                            *)
(***************************************************************************)
\* slip: a falsy scalar include_in taken for "no tags", as line 221 does
item_tags_falsy(h, item) ==
    LET raw == Get(h, item, "include_in", PyNone) IN
    IF ~HasKey(h, item, "include_in") THEN <<>>
    ELSE IF IsList(h, raw) THEN Elems(h, raw)
    ELSE IF Truthy(h, raw) THEN <<raw>> ELSE <<>>

\* lines 137-145: item.get('include_in', []) normalised to a list
item_tags(h, item) ==
    LET raw == Get(h, item, "include_in", PyNone) IN
    IF ~HasKey(h, item, "include_in") THEN <<>>
    ELSE IF IsList(h, raw) THEN Elems(h, raw)
    ELSE IF raw.t = "none" THEN <<>>
    ELSE <<raw>>

\* slip: the copy put in front of the items retained so far
append_copy_front(c, acc) == Then(c, LAMBDA h, v : Ret(h, <<v>> \o acc))
\* filtered.append(copy.deepcopy(item)), lines 134, 151, 154, 243, 344
append_copy(c, acc) == Then(c, LAMBDA h, v : Ret(h, Append(acc, v)))

\* slip: the test of 'all' for an entry that is not a mapping inverted
filter_items_step_inverted(h, item, include_tags_set, acc) ==
    IF ~IsDict(h, item)
    THEN IF ALL \notin include_tags_set
         THEN append_copy(deepcopy(h, item), acc)
         ELSE Ret(h, acc)
    ELSE IF ~Hashable(item_tags(h, item)) THEN Raise(h)
    ELSE IF Range(item_tags(h, item)) \cap include_tags_set # {}
    THEN append_copy(deepcopy(h, item), acc)
    ELSE IF item_tags(h, item) = <<>> /\ ALL \in include_tags_set
    THEN append_copy(deepcopy(h, item), acc)
    ELSE Ret(h, acc)

\* lines 131-154: the body of the loop; acc is the list `filtered` so far
filter_items_step(h, item, include_tags_set, acc) ==
    IF ~IsDict(h, item)
    THEN IF ALL \in include_tags_set
         THEN append_copy(deepcopy(h, item), acc)
         ELSE Ret(h, acc)
    ELSE IF ~Hashable(item_tags(h, item)) THEN Raise(h)
    ELSE IF Range(item_tags(h, item)) \cap include_tags_set # {}
    THEN append_copy(deepcopy(h, item), acc)
    ELSE IF item_tags(h, item) = <<>> /\ ALL \in include_tags_set
    THEN append_copy(deepcopy(h, item), acc)
    ELSE Ret(h, acc)

\* lines 129-154: the loop over the items s
RECURSIVE filter_items_loop(_, _, _, _)
filter_items_loop(h, s, include_tags_set, acc) ==
    IF s = <<>> THEN Ret(h, acc)
    ELSE Then(filter_items_step(h, Head(s), include_tags_set, acc),
              LAMBDA h2, a : filter_items_loop(h2, Tail(s), include_tags_set, a))

filter_items(h, items, include_tags) ==
    IF ~Truthy(h, items) THEN NewObj(h, PyList(<<>>))
    ELSE IF ~Truthy(h, include_tags) THEN NewObj(h, PyList(<<>>))
    ELSE IF ~Iterable(h, include_tags) \/ ~Hashable(Iter(h, include_tags)) THEN Raise(h)
    ELSE IF ~Iterable(h, items) THEN Raise(h)
    ELSE Then(filter_items_loop(h, Iter(h, items), Range(Iter(h, include_tags)), <<>>),
              LAMBDA h2, filtered : NewObj(h2, PyList(filtered)))

(***************************************************************************)
(* apply_bullet_limit                                                      *)
(***************************************************************************)
\* bullets[:max_bullets] for max_bullets > 0: a new list or a string; dicts
\* and integers cannot be sliced
Sliceable(h, v) == v.t = "str" \/ IsList(h, v)
\* slip: bullets[:max_bullets - 1]
Slice_short(h, v, m) ==
    IF v.t = "str" THEN Ret(h, PyStr(StrPrefix(v.s, m - 1)))
    ELSE NewObj(h, PyList(SubSeq(Elems(h, v), 1,
                                 IF m - 1 < Len(Elems(h, v)) THEN m - 1 ELSE Len(Elems(h, v)))))
\* slip: bullets[max_bullets:]
Slice_tail(h, v, m) ==
    IF v.t = "str" THEN Ret(h, PyStr(""))
    ELSE NewObj(h, PyList(SubSeq(Elems(h, v), m + 1, Len(Elems(h, v)))))
Slice(h, v, m) ==
    IF v.t = "str" THEN Ret(h, PyStr(StrPrefix(v.s, m)))
    ELSE NewObj(h, PyList(SubSeq(Elems(h, v), 1,
                                 IF m < Len(Elems(h, v)) THEN m ELSE Len(Elems(h, v)))))

\* slip: the bullets handed back as they are where no limit applies
apply_bullet_limit_shared(h, bullets, max_bullets) ==
    IF ~Truthy(h, bullets) THEN NewObj(h, PyList(<<>>))
    ELSE IF max_bullets.t = "none" THEN Ret(h, bullets)
    ELSE IF max_bullets.t # "int" THEN Raise(h)
    ELSE IF max_bullets.i <= 0 THEN Ret(h, bullets)
    ELSE IF ~Sliceable(h, bullets) THEN Raise(h)
    ELSE Then(Slice(h, bullets, max_bullets.i), LAMBDA h2, s : deepcopy(h2, s))
apply_bullet_limit(h, bullets, max_bullets) ==
    IF ~Truthy(h, bullets) THEN NewObj(h, PyList(<<>>))
    ELSE IF max_bullets.t = "none" THEN deepcopy(h, bullets)
    ELSE IF max_bullets.t # "int" THEN Raise(h)
    ELSE IF max_bullets.i <= 0 THEN deepcopy(h, bullets)
    ELSE IF ~Sliceable(h, bullets) THEN Raise(h)
    ELSE Then(Slice(h, bullets, max_bullets.i), LAMBDA h2, s : deepcopy(h2, s))

(***************************************************************************)
(* filter_work_experience                                                  *)
(***************************************************************************)
\* lines 219-221 (and 328-330): include_in of a position, as a list
position_tags(h, position) ==
    LET raw == Get(h, position, "include_in", PyNone) IN
    IF ~HasKey(h, position, "include_in") THEN <<>>
    ELSE IF IsList(h, raw) THEN Elems(h, raw)
    ELSE IF Truthy(h, raw) THEN <<raw>> ELSE <<>>

\* line 226 (and 334): the position-level inclusion test
position_included(tags, include_tags_set) ==
    \/ Range(tags) \cap include_tags_set # {}
    \/ (tags = <<>> /\ ALL \in include_tags_set)

\* lines 230-234 / 237-241 / 338-342: d[field] = apply_bullet_limit(d[field], max)
\* when the field is present
limit_field(h, d, field, max_bullets) ==
    IF ~HasKey(h, d, field) THEN Ret(h, d)
    ELSE Then(apply_bullet_limit(h, Items(h, d)[field], max_bullets),
              LAMBDA h2, b : Ret(SetKey(h2, d, field, b), d))

\* lines 227-243: copy a retained position and limit its bullets
copy_position(h, position, max_bullets) ==
    Then(deepcopy(h, position),
         LAMBDA h1, new_position :
            Then(limit_field(h1, new_position, "responsibilities", max_bullets),
                 LAMBDA h2, d : limit_field(h2, d, "highlights", max_bullets)))

\* lines 215-243: the body of the loop over the positions of one company
positions_step(h, position, include_tags_set, max_bullets, acc) ==
    IF ~IsDict(h, position) THEN Ret(h, acc)
    ELSE IF ~Hashable(position_tags(h, position)) THEN Raise(h)
    ELSE IF position_included(position_tags(h, position), include_tags_set)
    THEN append_copy(copy_position(h, position, max_bullets), acc)
    ELSE Ret(h, acc)

\* lines 213-243: the loop over the positions of one company
RECURSIVE positions_loop(_, _, _, _, _)
positions_loop(h, s, include_tags_set, max_bullets, acc) ==
    IF s = <<>> THEN Ret(h, acc)
    ELSE Then(positions_step(h, Head(s), include_tags_set, max_bullets, acc),
              LAMBDA h2, a : positions_loop(h2, Tail(s), include_tags_set, max_bullets, a))

\* slip: the company is entered whatever was retained
keep_company_always(filtered_positions) == TRUE
\* lines 245-246: a company enters the result only with a non-empty list
keep_company(filtered_positions) == filtered_positions # <<>>

\* lines 245-246: filtered_work[company] = filtered_positions
enter_company(h, company, filtered_positions, acc) ==
    IF keep_company(filtered_positions)
    THEN Then(NewObj(h, PyList(filtered_positions)),
              LAMBDA h2, v : Ret(h2, (company :> v) @@ acc))
    ELSE Ret(h, acc)

\* lines 210-246: the body of the loop over the companies
companies_step(h, company, positions, include_tags_set, max_bullets, acc) ==
    IF ~IsList(h, positions) THEN Ret(h, acc)
    ELSE Then(positions_loop(h, Elems(h, positions), include_tags_set, max_bullets, <<>>),
              LAMBDA h2, filtered_positions :
                 enter_company(h2, company, filtered_positions, acc))

\* lines 209-246: the loop over the companies; acc is filtered_work so far
RECURSIVE companies_loop(_, _, _, _, _, _)
companies_loop(h, work, ks, include_tags_set, max_bullets, acc) ==
    IF ks = <<>> THEN Ret(h, acc)
    ELSE Then(companies_step(h, Head(ks), work[Head(ks)], include_tags_set,
                             max_bullets, acc),
              LAMBDA h2, a : companies_loop(h2, work, Tail(ks), include_tags_set,
                                            max_bullets, a))

filter_work_experience(h, work_data, include_tags, max_bullets) ==
    IF ~Truthy(h, work_data) THEN NewObj(h, PyDict(EmptyMap))
    ELSE IF ~IsDict(h, work_data) THEN NewObj(h, PyDict(EmptyMap))
    ELSE IF ~Iterable(h, include_tags) \/ ~Hashable(Iter(h, include_tags)) THEN Raise(h)
    ELSE Then(companies_loop(h, Items(h, work_data), KeySeq(DOMAIN Items(h, work_data)),
                             Range(Iter(h, include_tags)), max_bullets, EmptyMap),
              LAMBDA h2, filtered_work : NewObj(h2, PyDict(filtered_work)))

(***************************************************************************)
(* the legacy flat work list, filter_resume_data lines 318-346             *)
(***************************************************************************)
\* lines 335-344: copy a retained job and limit its highlights
copy_job(h, job, max_bullets) ==
    Then(deepcopy(h, job),
         LAMBDA h1, new_job : limit_field(h1, new_job, "highlights", max_bullets))

\* lines 325-344: the body of the loop over the jobs
work_step(h, job, include_tags_set, max_bullets, acc) ==
    IF ~IsDict(h, job) THEN Ret(h, acc)
    ELSE IF ~Hashable(position_tags(h, job)) THEN Raise(h)
    ELSE IF position_included(position_tags(h, job), include_tags_set)
    THEN append_copy(copy_job(h, job, max_bullets), acc)
    ELSE Ret(h, acc)

\* lines 324-344: the loop over the jobs
RECURSIVE work_loop(_, _, _, _, _)
work_loop(h, s, include_tags_set, max_bullets, acc) ==
    IF s = <<>> THEN Ret(h, acc)
    ELSE Then(work_step(h, Head(s), include_tags_set, max_bullets, acc),
              LAMBDA h2, a : work_loop(h2, Tail(s), include_tags_set, max_bullets, a))

filter_work(h, work_list, include_tags, max_bullets) ==
    IF ~Hashable(Iter(h, include_tags)) THEN Raise(h)
    ELSE IF ~Iterable(h, work_list) THEN Raise(h)
    ELSE Then(work_loop(h, Iter(h, work_list), Range(Iter(h, include_tags)),
                        max_bullets, <<>>),
              LAMBDA h2, filtered_work : NewObj(h2, PyList(filtered_work)))

(***************************************************************************)
(* filter_projects                                                         *)
(***************************************************************************)
\* lines 268-273: limit the highlights of each retained project, in place
RECURSIVE projects_loop(_, _, _)
projects_loop(h, s, max_bullets) ==
    IF s = <<>> THEN Ret(h, PyNone)
    ELSE IF IsDict(h, Head(s))
    THEN Then(limit_field(h, Head(s), "highlights", max_bullets),
              LAMBDA h2, project : projects_loop(h2, Tail(s), max_bullets))
    ELSE projects_loop(h, Tail(s), max_bullets)

\* lines 264-275: what follows filter_items
limit_projects(h, filtered, max_bullets) ==
    IF max_bullets.t = "none" THEN Ret(h, filtered)
    ELSE IF max_bullets.t # "int" THEN Raise(h)
    ELSE IF max_bullets.i <= 0 THEN Ret(h, filtered)
    ELSE Then(projects_loop(h, Elems(h, filtered), max_bullets),
              LAMBDA h2, none : Ret(h2, filtered))

filter_projects(h, projects, include_tags, max_bullets) ==
    Then(filter_items(h, projects, include_tags),
         LAMBDA h2, filtered : limit_projects(h2, filtered, max_bullets))

(***************************************************************************)
(* filter_resume_data                                                      *)
(***************************************************************************)
\* slip: every bare value wrapped, the falsy ones too
coerce_tags_wrap(h, raw) ==
    IF IsList(h, raw) THEN Ret(h, raw)
    ELSE NewObj(h, PyList(<<raw>>))
\* slip: an empty list taken for "no tags given"
coerce_tags_default(h, raw) ==
    IF IsList(h, raw) /\ Elems(h, raw) # <<>> THEN Ret(h, raw)
    ELSE IF Truthy(h, raw) THEN NewObj(h, PyList(<<raw>>))
    ELSE NewObj(h, PyList(<<ALL>>))
\* lines 303-304: include_tags made a list
coerce_tags(h, raw) ==
    IF IsList(h, raw) THEN Ret(h, raw)
    ELSE IF Truthy(h, raw) THEN NewObj(h, PyList(<<raw>>))
    ELSE NewObj(h, PyList(<<ALL>>))

\* line 298: profile.get('filters', {}), as a mapping
filters(h, prof) ==
    IF HasKey(h, prof, "filters") THEN Items(h, Items(h, prof)["filters"]) ELSE EmptyMap

\* lines 299, 303-304: include_tags
tags_setting(h, f) ==
    IF "include_tags" \in DOMAIN f THEN coerce_tags(h, f["include_tags"])
    ELSE NewObj(h, PyList(<<ALL>>))

\* line 300: max_bullets
max_setting(f) ==
    IF "max_bullets_per_job" \in DOMAIN f THEN f["max_bullets_per_job"] ELSE PyNone

\* lines 298-304: the value is the pair of settings
settings(h, prof) ==
    IF ~IsDict(h, prof) THEN Raise(h)
    ELSE IF HasKey(h, prof, "filters") /\ ~IsDict(h, Items(h, prof)["filters"])
    THEN Raise(h)
    ELSE Then(tags_setting(h, filters(h, prof)),
              LAMBDA h2, tags : Ret(h2, [tags |-> tags, max |-> max_setting(filters(h, prof))]))

\* slip: interests filtered like education
Sections_interests ==
    <<"work_experience", "work", "education", "awards", "certifications",
      "certificates", "specialty_skills", "skills", "projects", "interests">>
\* the sections dispatched by lines 309-396, in the order of the code
Sections ==
    <<"work_experience", "work", "education", "awards", "certifications",
      "certificates", "specialty_skills", "skills", "projects">>

\* the function each section is handed to
handler(sec, h, v, tags, max) ==
    CASE sec = "work_experience" -> filter_work_experience(h, v, tags, max)
      [] sec = "work" -> filter_work(h, v, tags, max)
      [] sec = "projects" -> filter_projects(h, v, tags, max)
      [] OTHER -> filter_items(h, v, tags)

\* slip: a section that comes back empty is taken out of filtered_data
filter_section_drop_empty(h, sec, rd, fd, tags, max) ==
    IF ~HasKey(h, fd, sec) THEN Ret(h, fd)
    ELSE Then(handler(sec, h, Get(h, rd, sec, PyNone), tags, max),
              LAMBDA h2, v :
                  IF Truthy(h2, v) THEN Ret(SetKey(h2, fd, sec, v), fd)
                  ELSE Ret([h2 EXCEPT !.m[fd.a] =
                               PyDict([k \in DOMAIN @.d \ {sec} |-> @.d[k]])], fd))

\* one `if sec in filtered_data: filtered_data[sec] = ...` block
filter_section(h, sec, rd, fd, tags, max) ==
    IF ~HasKey(h, fd, sec) THEN Ret(h, fd)
    ELSE Then(handler(sec, h, Get(h, rd, sec, PyNone), tags, max),
              LAMBDA h2, v : Ret(SetKey(h2, fd, sec, v), fd))

\* lines 309-401 from section number i on
RECURSIVE filter_sections(_, _, _, _, _, _)
filter_sections(h, i, rd, fd, tags, max) ==
    IF i > Len(Sections) THEN Ret(h, fd)
    ELSE Then(filter_section(h, Sections[i], rd, fd, tags, max),
              LAMBDA h2, d : filter_sections(h2, i + 1, rd, fd, tags, max))

\* a call in progress.  done: the call has returned (v is the result, or an
\* exception escaped); otherwise v is filtered_data
Frame(r, tags, max, done) ==
    [h |-> r.h, v |-> r.v, err |-> r.err, tags |-> tags, max |-> max, done |-> done]

\* slip: filtered_data = resume_data, no copy taken
working_copy_alias(st, rd) ==
    IF st.err THEN Frame(Raise(st.h), PyNone, PyNone, TRUE)
    ELSE Frame(Ret(st.h, rd), st.v.tags, st.v.max, FALSE)
\* line 307: the working copy, once the settings are read
working_copy(st, rd) ==
    IF st.err THEN Frame(Raise(st.h), PyNone, PyNone, TRUE)
    ELSE Frame(deepcopy(st.h, rd), st.v.tags, st.v.max, FALSE)

\* slip: an empty profile read as one that names no filters
enter_default(h, rd, prof) ==
    IF ~Truthy(h, rd) THEN Frame(NewObj(h, PyDict(EmptyMap)), PyNone, PyNone, TRUE)
    ELSE IF ~Truthy(h, prof)
    THEN working_copy(Then(NewObj(h, PyList(<<ALL>>)),
                           LAMBDA h2, tags : Ret(h2, [tags |-> tags, max |-> PyNone])), rd)
    ELSE working_copy(settings(h, prof), rd)
\* lines 291-307: the early returns, the settings and the working copy
enter(h, rd, prof) ==
    IF ~Truthy(h, rd) THEN Frame(NewObj(h, PyDict(EmptyMap)), PyNone, PyNone, TRUE)
    ELSE IF ~Truthy(h, prof) THEN Frame(deepcopy(h, rd), PyNone, PyNone, TRUE)
    ELSE working_copy(settings(h, prof), rd)

\* lines 309-401, after the entry e
finish(e, rd) ==
    IF e.done THEN [h |-> e.h, v |-> e.v, err |-> e.err]
    ELSE filter_sections(e.h, 1, rd, e.v, e.tags, e.max)

\* the whole call
filter_resume_data(h, rd, prof) == finish(enter(h, rd, prof), rd)

(***************************************************************************)
(* validate_resume.py.  The validator only reads the document, so it works *)
(* on trees.  An outcome is the ValidationResult so far (res) and whether  *)
(* an exception escaped (err).                                             *)
(***************************************************************************)
Ok(res) == [res |-> res, err |-> FALSE]
Exc(res) == [res |-> res, err |-> TRUE]

\* run F on the result of r, unless an exception escaped from r
AndThen(r, F(_)) == IF r.err THEN r ELSE F(r.res)

\* for idx, e in enumerate(s): Step(res, idx, e), as long as nothing escapes
ForEach(res, s, Step(_, _, _)) ==
    LET f[i \in 0..Len(s)] ==
            IF i = 0 THEN Ok(res)
            ELSE AndThen(f[i - 1], LAMBDA r : Step(r, i - 1, s[i]))
    IN f[Len(s)]

\* lines 74-80: a ValidationResult as __init__ leaves it
ValidationResult == [errors |-> <<>>, warnings |-> <<>>]

\* lines 55-62, 82-86
ValidationMessage(field_path, message) == [field_path |-> field_path, message |-> message]
add_error(res, field_path, message) ==
    [res EXCEPT !.errors = Append(@, ValidationMessage(field_path, message))]
add_warning(res, field_path, message) ==
    [res EXCEPT !.warnings = Append(@, ValidationMessage(field_path, message))]

\* bool(v) of a tree
Falsy(v) ==
    CASE v.t = "none" -> TRUE
      [] v.t = "str" -> v.s = ""
      [] v.t = "int" -> v.i = 0
      [] v.t = "list" -> v.l = <<>>
      [] OTHER -> DOMAIN v.d = {}

\* `field in x` is defined for mappings (a key), lists (a member) and strings
\* (a substring); None and integers raise TypeError.  The strings the model
\* places where the code tests for a field contain a field name only when
\* they are equal to it
Testable(x) == x.t \in {"dict", "list", "str"}
In(field, x) ==
    CASE x.t = "dict" -> field \in DOMAIN x.d
      [] x.t = "list" -> PyStr(field) \in Range(x.l)
      [] OTHER -> x.s = field

\* enumerate(x): the members of a list, the keys of a mapping, the
\* characters of a string; None and integers raise TypeError
Enumerable(x) == x.t \in {"dict", "list", "str"}
Enumerate(x) ==
    CASE x.t = "list" -> x.l
      [] x.t = "dict" -> [i \in 1..Len(KeySeq(DOMAIN x.d)) |-> PyStr(KeySeq(DOMAIN x.d)[i])]
      [] OTHER -> [i \in 1..Len(Chars(x.s)) |-> PyStr(Chars(x.s)[i])]

\* lines 35-43
ALLOWED_INCLUDE_IN_TAGS ==
    <<"all", "leadership", "management", "technical", "development", "consulting", "startup">>

Digit == {"0", "1", "2", "3", "4", "5", "6", "7", "8", "9"}
Alpha ==
    {"a", "b", "c", "d", "e", "f", "g", "h", "i", "j", "k", "l", "m", "n", "o", "p", "q",
     "r", "s", "t", "u", "v", "w", "x", "y", "z", "A", "B", "C", "D", "E", "F", "G", "H",
     "I", "J", "K", "L", "M", "N", "O", "P", "Q", "R", "S", "T", "U", "V", "W", "X", "Y", "Z"}
AllIn(cs, S) == \A i \in 1..Len(cs) : cs[i] \in S

\* `$` also matches before one newline that ends the string
Chomp(cs) == IF cs # <<>> /\ cs[Len(cs)] = "\n" THEN SubSeq(cs, 1, Len(cs) - 1) ELSE cs

\* line 45: [1-2][0-9]{3}(-[0-1][0-9](-[0-3][0-9])?)?|Present
DateFull(cs) ==
    \/ cs = <<"P", "r", "e", "s", "e", "n", "t">>
    \/ /\ Len(cs) \in {4, 7, 10}
       /\ cs[1] \in {"1", "2"}
       /\ AllIn(SubSeq(cs, 2, 4), Digit)
       /\ Len(cs) >= 7 => cs[5] = "-" /\ cs[6] \in {"0", "1"} /\ cs[7] \in Digit
       /\ Len(cs) = 10 => cs[8] = "-" /\ cs[9] \in {"0", "1", "2", "3"} /\ cs[10] \in Digit
DATE_REGEX(s) == DateFull(Chars(s)) \/ DateFull(Chomp(Chars(s)))

\* line 46: [a-zA-Z0-9._%+-]+@[a-zA-Z0-9.-]+\.[a-zA-Z]{2,}
EmailFull(cs) ==
    \E a, d \in 1..Len(cs) :
        /\ cs[a] = "@" /\ a > 1
        /\ AllIn(SubSeq(cs, 1, a - 1), Alpha \cup Digit \cup {".", "_", "%", "+", "-"})
        /\ cs[d] = "." /\ d > a + 1
        /\ AllIn(SubSeq(cs, a + 1, d - 1), Alpha \cup Digit \cup {".", "-"})
        /\ Len(cs) - d >= 2
        /\ AllIn(SubSeq(cs, d + 1, Len(cs)), Alpha)
EMAIL_REGEX(s) == EmailFull(Chars(s)) \/ EmailFull(Chomp(Chars(s)))

\* line 47: https?://[a-zA-Z0-9.-]+(:[0-9]+)?(/.*)?
PathFull(cs) == cs = <<>> \/ (cs[1] = "/" /\ "\n" \notin Range(Tail(cs)))
PortPathFull(cs) ==
    \/ PathFull(cs)
    \/ /\ cs # <<>> /\ cs[1] = ":"
       /\ \E p \in 2..Len(cs) :
            AllIn(SubSeq(cs, 2, p), Digit) /\ PathFull(SubSeq(cs, p + 1, Len(cs)))
UrlFull(cs) ==
    \E n \in {7, 8} :
        /\ Len(cs) > n
        /\ SubSeq(cs, 1, n) = (IF n = 7 THEN <<"h", "t", "t", "p", ":", "/", "/">>
                               ELSE <<"h", "t", "t", "p", "s", ":", "/", "/">>)
        /\ \E h \in n + 1..Len(cs) :
             /\ AllIn(SubSeq(cs, n + 1, h), Alpha \cup Digit \cup {".", "-"})
             /\ PortPathFull(SubSeq(cs, h + 1, Len(cs)))
URL_REGEX(s) == UrlFull(Chars(s)) \/ UrlFull(Chomp(Chars(s)))

\* type(v).__name__
TypeName(v) ==
    CASE v.t = "none" -> "NoneType"
      [] v.t = "str" -> "str"
      [] v.t = "int" -> "int"
      [] v.t = "list" -> "list"
      [] OTHER -> "dict"

Indexed(name, idx) == name \o "[" \o ToString(idx) \o "]"

\* `for field in required: if field not in rec: add_error(path, ...)`
RECURSIVE add_missing(_, _, _, _)
add_missing(res, rec, path, required) ==
    IF required = <<>> THEN res
    ELSE add_missing(IF In(Head(required), rec) THEN res
                     ELSE add_error(res, path, "Missing required field: " \o Head(required)),
                     rec, path, Tail(required))
require(res, rec, path, required) ==
    IF Testable(rec) THEN Ok(add_missing(res, rec, path, required)) ELSE Exc(res)

\* lines 432-446
_validate_date(res, date_str, path) ==
    IF date_str.t # "str"
    THEN Ok(add_error(res, path, "Date must be a string, got " \o TypeName(date_str)))
    ELSE IF ~DATE_REGEX(date_str.s)
    THEN Ok(add_error(res, path, "Invalid date format: " \o date_str.s))
    ELSE Ok(res)

\* `if field in rec: self._validate_date(rec[field], f"{path}.{field}")`
date_field(res, rec, field, path) ==
    IF ~In(field, rec) THEN Ok(res)
    ELSE IF rec.t # "dict" THEN Exc(res)
    ELSE _validate_date(res, rec.d[field], path \o "." \o field)

\* `if field in rec and rec[field]: if not URL_REGEX.match(rec[field]): ...`
url_field(res, rec, field, path, message) ==
    IF ~In(field, rec) THEN Ok(res)
    ELSE IF rec.t # "dict" THEN Exc(res)
    ELSE IF Falsy(rec.d[field]) THEN Ok(res)
    ELSE IF rec.d[field].t # "str" THEN Exc(res)
    ELSE IF URL_REGEX(rec.d[field].s) THEN Ok(res)
    ELSE Ok(add_error(res, path \o "." \o field, message \o rec.d[field].s))

\* lines 172-178
email_field(res, basics) ==
    IF ~In("email", basics) THEN Ok(res)
    ELSE IF basics.t # "dict" THEN Exc(res)
    ELSE IF Falsy(basics.d["email"]) THEN Ok(res)
    ELSE IF basics.d["email"].t # "str" THEN Exc(res)
    ELSE IF EMAIL_REGEX(basics.d["email"].s) THEN Ok(res)
    ELSE Ok(add_error(res, "basics.email", "Invalid email format: " \o basics.d["email"].s))

\* ', '.join(tags) of strings
RECURSIVE Join(_)
Join(tags) ==
    IF Len(tags) = 1 THEN tags[1].s ELSE tags[1].s \o ", " \o Join(Tail(tags))

\* line 466
InvalidTags(tags) ==
    SelectSeq(tags, LAMBDA tag : tag.t # "str" \/ tag.s \notin Range(ALLOWED_INCLUDE_IN_TAGS))

\* lines 474-480
mixed_all(res, tags, path) ==
    IF PyStr("all") \in Range(tags) /\ Len(tags) > 1
    THEN add_warning(res, path \o ".include_in", "Tag 'all' is present with other tags")
    ELSE res

\* lines 466-480; join raises TypeError on a member that is not a string
vocabulary(res, tags, path) ==
    IF InvalidTags(tags) = <<>> THEN Ok(mixed_all(res, tags, path))
    ELSE IF \E i \in 1..Len(InvalidTags(tags)) : InvalidTags(tags)[i].t # "str" THEN Exc(res)
    ELSE Ok(mixed_all(add_error(res, path \o ".include_in",
                                "Invalid tags: " \o Join(InvalidTags(tags))),
                      tags, path))

\* lines 448-480
_validate_include_in_tags(res, tags, path) ==
    IF tags.t # "list"
    THEN Ok(add_error(res, path \o ".include_in",
                      "include_in must be an array, got " \o TypeName(tags)))
    ELSE IF tags.l = <<>>
    THEN Ok(add_error(res, path \o ".include_in", "include_in array cannot be empty"))
    ELSE vocabulary(res, tags.l, path)

\* `if "include_in" in rec: self._validate_include_in_tags(rec["include_in"], path)`
tags_field(res, rec, path) ==
    IF ~In("include_in", rec) THEN Ok(res)
    ELSE IF rec.t # "dict" THEN Exc(res)
    ELSE _validate_include_in_tags(res, rec.d["include_in"], path)

\* `if field in rec and rec[field]: for idx, e in enumerate(rec[field]): Step`
ForEachIn(res, rec, field, Step(_, _, _)) ==
    IF ~In(field, rec) THEN Ok(res)
    ELSE IF rec.t # "dict" THEN Exc(res)
    ELSE IF Falsy(rec.d[field]) THEN Ok(res)
    ELSE IF ~Enumerable(rec.d[field]) THEN Exc(res)
    ELSE ForEach(res, Enumerate(rec.d[field]), Step)

\* `if not section: return`, then the loop over its entries
ForEachOf(res, section, Step(_, _, _)) ==
    IF Falsy(section) THEN Ok(res)
    ELSE IF ~Enumerable(section) THEN Exc(res)
    ELSE ForEach(res, Enumerate(section), Step)

\* lines 147-155
_validate_structure(res, data) == require(res, data, "root", <<"basics">>)

\* lines 194-207
_validate_profile(res, profile, path) ==
    AndThen(require(res, profile, path, <<"network", "url">>),
            LAMBDA r : url_field(r, profile, "url", path, "Invalid URL: "))

\* lines 157-192
_validate_basics(res, basics) ==
    IF Falsy(basics) THEN Ok(res)
    ELSE AndThen(AndThen(AndThen(
            require(res, basics, "basics", <<"name", "email">>),
            LAMBDA r : email_field(r, basics)),
            LAMBDA r : url_field(r, basics, "url", "basics", "Invalid URL format: ")),
            LAMBDA r : ForEachIn(r, basics, "profiles",
                LAMBDA r2, idx, profile :
                    _validate_profile(r2, profile, Indexed("basics.profiles", idx))))

\* lines 253-269, 384-394: a bullet that is a record needs a description;
\* any other bullet of a position must be a string
bullet(res, entry, path, message, strings) ==
    IF entry.t = "dict"
    THEN tags_field(IF "description" \in DOMAIN entry.d THEN res
                    ELSE add_error(res, path, message),
                    entry, path)
    ELSE IF strings /\ entry.t # "str"
    THEN Ok(add_error(res, path,
                      "Responsibility must be a string or object with description and include_in"))
    ELSE Ok(res)

\* lines 276-284
_validate_project_in_position(res, project, path) ==
    AndThen(require(res, project, path, <<"name", "description">>),
            LAMBDA r : tags_field(r, project, path))

\* lines 232-274
_validate_position(res, position, path) ==
    AndThen(AndThen(AndThen(AndThen(AndThen(
        require(res, position, path, <<"job_title", "location", "start_date", "end_date">>),
        LAMBDA r : date_field(r, position, "start_date", path)),
        LAMBDA r : date_field(r, position, "end_date", path)),
        LAMBDA r : tags_field(r, position, path)),
        LAMBDA r : ForEachIn(r, position, "responsibilities",
            LAMBDA r2, idx, resp :
                bullet(r2, resp, Indexed(path \o ".responsibilities", idx),
                       "Responsibility object must have 'description' field", TRUE))),
        LAMBDA r : ForEachIn(r, position, "projects",
            LAMBDA r2, idx, project :
                _validate_project_in_position(r2, project, Indexed(path \o ".projects", idx))))

\* lines 222-230: one company of the mapping
company_entry(res, company, positions) ==
    IF positions.t # "list"
    THEN Ok(add_error(res, "work_experience." \o company,
                      "Company entry must be an array of positions"))
    ELSE ForEach(res, positions.l,
                 LAMBDA r, idx, position :
                     _validate_position(r, position,
                                        Indexed("work_experience." \o company, idx)))

\* lines 209-230
_validate_work_experience(res, work_exp) ==
    IF Falsy(work_exp) THEN Ok(res)
    ELSE IF work_exp.t # "dict"
    THEN Ok(add_error(res, "work_experience",
                      "work_experience must be an object with company names as keys"))
    ELSE ForEach(res, KeySeq(DOMAIN work_exp.d),
                 LAMBDA r, idx, company : company_entry(r, company, work_exp.d[company]))

\* lines 291-306: one entry of education
education_entry(res, entry, path) ==
    AndThen(AndThen(AndThen(
        require(res, entry, path, <<"institution", "area", "studyType", "startDate", "endDate">>),
        LAMBDA r : date_field(r, entry, "startDate", path)),
        LAMBDA r : date_field(r, entry, "endDate", path)),
        LAMBDA r : tags_field(r, entry, path))

\* lines 286-306
_validate_education(res, education) ==
    ForEachOf(res, education,
              LAMBDA r, idx, entry : education_entry(r, entry, Indexed("education", idx)))

\* lines 313-324: one award
award_entry(res, award, path) ==
    AndThen(AndThen(
        require(res, award, path, <<"title", "date", "awarder">>),
        LAMBDA r : date_field(r, award, "date", path)),
        LAMBDA r : tags_field(r, award, path))

\* lines 308-324
_validate_awards(res, awards) ==
    ForEachOf(res, awards,
              LAMBDA r, idx, award : award_entry(r, award, Indexed("awards", idx)))

\* lines 338-340
acronym_field(res, cert, path) ==
    IF ~In("acronym", cert) THEN Ok(res)
    ELSE IF cert.t # "dict" THEN Exc(res)
    ELSE IF cert.d["acronym"].t \in {"none", "str"} THEN Ok(res)
    ELSE Ok(add_error(res, path \o ".acronym", "Acronym must be a string"))

\* lines 331-354: one certification
certification_entry(res, cert, path) ==
    AndThen(AndThen(AndThen(AndThen(AndThen(
        require(res, cert, path, <<"title", "date", "url">>),
        LAMBDA r : acronym_field(r, cert, path)),
        LAMBDA r : date_field(r, cert, "date", path)),
        LAMBDA r : url_field(r, cert, "url", path, "Invalid URL: ")),
        LAMBDA r : url_field(r, cert, "badge_url", path, "Invalid badge URL: ")),
        LAMBDA r : tags_field(r, cert, path))

\* lines 326-354
_validate_certifications(res, certifications) ==
    ForEachOf(res, certifications,
              LAMBDA r, idx, cert :
                  certification_entry(r, cert, Indexed("certifications", idx)))

\* lines 361-394: one project
project_entry(res, project, path) ==
    AndThen(AndThen(AndThen(AndThen(AndThen(
        require(res, project, path, <<"name", "description", "startDate", "roles", "type">>),
        LAMBDA r : date_field(r, project, "startDate", path)),
        LAMBDA r : date_field(r, project, "endDate", path)),
        LAMBDA r : url_field(r, project, "url", path, "Invalid URL: ")),
        LAMBDA r : tags_field(r, project, path)),
        LAMBDA r : ForEachIn(r, project, "highlights",
            LAMBDA r2, hidx, highlight :
                bullet(r2, highlight, Indexed(path \o ".highlights", hidx),
                       "Highlight object must have 'description' field", FALSE)))

\* lines 356-394
_validate_projects(res, projects) ==
    ForEachOf(res, projects,
              LAMBDA r, idx, project : project_entry(r, project, Indexed("projects", idx)))

\* lines 401-415: one volunteer entry
volunteer_entry(res, vol, path) ==
    AndThen(AndThen(AndThen(
        require(res, vol, path, <<"organization", "position", "startDate", "endDate">>),
        LAMBDA r : date_field(r, vol, "startDate", path)),
        LAMBDA r : date_field(r, vol, "endDate", path)),
        LAMBDA r : tags_field(r, vol, path))

\* lines 396-415
_validate_volunteer(res, volunteer) ==
    ForEachOf(res, volunteer,
              LAMBDA r, idx, vol : volunteer_entry(r, vol, Indexed("volunteer", idx)))

\* lines 417-430
_validate_specialty_skills(res, skills) ==
    ForEachOf(res, skills,
              LAMBDA r, idx, skill :
                  AndThen(require(r, skill, Indexed("specialty_skills", idx),
                                  <<"name", "keywords">>),
                          LAMBDA r2 : tags_field(r2, skill, Indexed("specialty_skills", idx))))

\* data.get(key, default): AttributeError unless data is a mapping
get(data, key, default) == IF key \in DOMAIN data.d THEN data.d[key] ELSE default

\* slip: the sections after basics skipped once an error is on record
sections_failfast(res, data) ==
    AndThen(_validate_basics(res, get(data, "basics", PyDict(EmptyMap))),
            LAMBDA r : IF r.errors # <<>> THEN Ok(r)
                       ELSE _validate_work_experience(
                                r, get(data, "work_experience", PyDict(EmptyMap))))
\* lines 136-143
sections(res, data) ==
    AndThen(AndThen(AndThen(AndThen(AndThen(AndThen(AndThen(
        _validate_basics(res, get(data, "basics", PyDict(EmptyMap))),
        LAMBDA r : _validate_work_experience(r, get(data, "work_experience", PyDict(EmptyMap)))),
        LAMBDA r : _validate_education(r, get(data, "education", PyList(<<>>)))),
        LAMBDA r : _validate_awards(r, get(data, "awards", PyList(<<>>)))),
        LAMBDA r : _validate_certifications(r, get(data, "certifications", PyList(<<>>)))),
        LAMBDA r : _validate_projects(r, get(data, "projects", PyList(<<>>)))),
        LAMBDA r : _validate_volunteer(r, get(data, "volunteer", PyList(<<>>)))),
        LAMBDA r : _validate_specialty_skills(r, get(data, "specialty_skills", PyList(<<>>))))

\* lines 130-145: the document is loaded
validate_data(res, data) ==
    IF data = PyNone THEN Ok(add_error(res, "file", "YAML file is empty"))
    ELSE AndThen(_validate_structure(res, data),
                 LAMBDA r : IF data.t = "dict" THEN sections(r, data) ELSE Exc(r))

\* lines 117-145: file.error is the exception open or yaml.safe_load raised,
\* if any; file.data is the document loaded otherwise
validate_file(res, file) ==
    CASE file.error = "FileNotFoundError" -> Ok(add_error(res, "file", "File not found"))
      [] file.error = "YAMLError" -> Ok(add_error(res, "file", "YAML parsing error"))
      [] OTHER -> validate_data(res, file.data)

(***************************************************************************)
(* The profile functions of profile_manager.py: load_profile,              *)
(* validate_profile, get_profile_info.  They read a parsed profile, so     *)
(* they work on trees.  An outcome is the value returned or the kind of    *)
(* the exception that escaped.                                             *)
(***************************************************************************)
Returns(v) == [kind |-> "return", value |-> v]
Raises(k) == [kind |-> k, value |-> PyNone]

\* d[k] = v on a mapping
setitem(d, k, v) == PyDict([x \in DOMAIN d.d \cup {k} |-> IF x = k THEN v ELSE d.d[x]])

\* lines 73-74
fill_filters(prof) ==
    IF "filters" \in DOMAIN prof.d THEN prof
    ELSE setitem(prof, "filters", PyDict(EmptyMap))

\* lines 76-79, fv being profile['filters']: the test of line 76 raises
\* TypeError on None and on an integer, the assignment of line 77 on a list
\* and on a string
fill_include_tags(prof, fv) ==
    IF ~Testable(fv) THEN Raises("TypeError")
    ELSE IF In("include_tags", fv) THEN Returns(prof)
    ELSE IF fv.t = "dict"
    THEN Returns(setitem(prof, "filters", setitem(fv, "include_tags", PyList(<<ALL>>))))
    ELSE Raises("TypeError")

\* lines 40-79; f is what is found at profile_path
load_profile(f) ==
    CASE f.error = "FileNotFoundError" -> Raises("ProfileNotFoundError")
      [] f.error = "YAMLError" -> Raises("InvalidProfileError")
      [] f.data = PyNone -> Raises("InvalidProfileError")
      [] f.data.t # "dict" -> Raises("InvalidProfileError")
      [] OTHER -> fill_include_tags(fill_filters(f.data), fill_filters(f.data).d["filters"])

\* lines 423-431
check_profile_section(prof) ==
    IF "profile" \notin DOMAIN prof.d THEN <<"Missing 'profile' section">>
    ELSE IF prof.d["profile"].t # "dict" THEN <<"'profile' section must be a dictionary">>
    ELSE IF "name" \notin DOMAIN prof.d["profile"].d THEN <<"Missing 'profile.name'">>
    ELSE <<>>

\* lines 439-442
check_include_tags(f) ==
    IF "include_tags" \in DOMAIN f.d /\ f.d["include_tags"].t # "list"
    THEN <<"'filters.include_tags' must be a list">>
    ELSE <<>>

\* slip: the type of max_bullets_per_job is not looked at
check_max_bullets_any(f) == <<>>

\* lines 444-447
check_max_bullets(f) ==
    IF "max_bullets_per_job" \in DOMAIN f.d
       /\ f.d["max_bullets_per_job"].t \notin {"none", "int"}
    THEN <<"'filters.max_bullets_per_job' must be an integer or None">>
    ELSE <<>>

\* lines 433-447
check_filters(prof) ==
    IF "filters" \notin DOMAIN prof.d THEN <<>>
    ELSE IF prof.d["filters"].t # "dict" THEN <<"'filters' section must be a dictionary">>
    ELSE check_include_tags(prof.d["filters"]) \o check_max_bullets(prof.d["filters"])

\* line 450 and the returns of lines 417 and 421
verdict(errors) == [is_valid |-> Len(errors) = 0, errors |-> errors]

\* lines 404-450
validate_profile(prof) ==
    IF Falsy(prof) THEN [is_valid |-> FALSE, errors |-> <<"Profile is empty or None">>]
    ELSE IF prof.t # "dict"
    THEN [is_valid |-> FALSE, errors |-> <<"Profile must be a dictionary">>]
    ELSE verdict(check_profile_section(prof) \o check_filters(prof))

\* x.get(...) is defined for mappings only
HasGet(x) == x.t = "dict"

\* slip: no tag at all as the default of include_tags
info_tags_no_default(prof, f) == get(f, "include_tags", PyList(<<>>))

\* line 471
info_tags(prof, f) == get(f, "include_tags", PyList(<<ALL>>))

\* lines 466-474, the three sections being mappings
summary(prof, profile_section, f, output) ==
    PyDict("name" :> get(profile_section, "name", PyStr("Unknown"))
           @@ "description" :> get(profile_section, "description", PyStr(""))
           @@ "slug" :> get(profile_section, "slug", PyStr(""))
           @@ "include_tags" :> info_tags(prof, f)
           @@ "max_bullets_per_job" :> get(f, "max_bullets_per_job", PyNone)
           @@ "filename" :> get(output, "filename", PyStr("resume"))
           @@ "title_suffix" :> get(output, "title_suffix", PyStr("")))

\* lines 453-474
get_profile_info(prof) ==
    IF ~HasGet(prof) THEN Raises("AttributeError")
    ELSE IF \E k \in {"profile", "filters", "output"} : ~HasGet(get(prof, k, PyDict(EmptyMap)))
    THEN Raises("AttributeError")
    ELSE Returns(summary(prof, get(prof, "profile", PyDict(EmptyMap)),
                         get(prof, "filters", PyDict(EmptyMap)),
                         get(prof, "output", PyDict(EmptyMap))))

(***************************************************************************)
(* Bounds and inputs                                                       *)
(***************************************************************************)
MaxItems == 2      \* entries of a filterable list, positions of a company
MaxBullets == 3    \* bullets of a position or project
MaxLimit == 2      \* largest max_bullets_per_job
MaxCalls == 2      \* calls of validate_file on one ResumeValidator

TECH == PyStr("technical")
LEAD == PyStr("leadership")

\* sequences over S of length at most n
SeqsUpTo(S, n) == UNION {[1..k -> S] : k \in 0..n}

Field(k, v) == k :> v

\* the bullet strings, in document order
BulletNames == <<"b1", "b2", "b3", "b4", "b5", "b6">>
Bullets(n) == PyList([i \in 1..n |-> PyStr(BulletNames[i])])
\* the same with a tag-annotated bullet record in front
TaggedBullets(n) ==
    PyList([i \in 1..n |->
        IF i = 1 THEN PyDict(Field("description", PyStr("b1"))
                              @@ Field("include_in", PyList(<<TECH>>)))
        ELSE PyStr(BulletNames[i])])

\* include_in as it appears on items: a list, a bare scalar, None
TagValues ==
    {PyList(<<ALL>>), PyList(<<TECH>>), PyList(<<TECH, ALL>>), PyList(<<>>),
     TECH, PyStr(""), PyInt(0), PyNone}

\* the argument include_tags of the primitives
TagLists ==
    {PyList(<<ALL>>), PyList(<<TECH>>), PyList(<<TECH, ALL>>),
     PyList(<<ALL, TECH>>), PyList(<<LEAD, LEAD>>), PyList(<<>>), PyNone}

\* max_bullets
Limits == {PyNone} \cup {PyInt(i) : i \in -1..MaxLimit}

\* entries of a filterable list: records with every shape of include_in,
\* one with a nested mapping, and a plain string
ItemShapes ==
    {PyDict(Field("name", PyStr("n")) @@ Field("include_in", tv)) : tv \in TagValues}
    \cup {PyDict(Field("name", PyStr("u"))),
          PyDict(Field("name", PyStr("d")) @@ Field("include_in", PyList(<<ALL>>))
                 @@ Field("data", PyDict(Field("nested", PyStr("value"))))),
          PyStr("s")}

ItemLists == {PyList(l) : l \in SeqsUpTo(ItemShapes, MaxItems)} \cup {PyNone}

BulletLists ==
    {Bullets(n) : n \in 0..MaxBullets} \cup {TaggedBullets(n) : n \in 1..MaxBullets}
    \cup {PyNone}

\* positions: the tag shapes the position rule tells apart, with one or both
\* bullet fields, and a plain string
PositionTags == {PyList(<<ALL>>), PyList(<<TECH>>), PyStr("")}
PositionShapes ==
    {PyDict(Field("job_title", PyStr("p")) @@ Field("include_in", tv)
            @@ Field("responsibilities", Bullets(MaxBullets))) : tv \in PositionTags}
    \cup
    {PyDict(Field("job_title", PyStr("q")) @@ Field("include_in", tv)
            @@ Field("responsibilities", Bullets(MaxBullets))
            @@ Field("highlights", TaggedBullets(MaxBullets))) : tv \in PositionTags}
    \cup
    {PyDict(Field("job_title", PyStr("u"))
            @@ Field("responsibilities", Bullets(MaxBullets))),
     PyStr("s")}

PositionLists == {PyList(l) : l \in SeqsUpTo(PositionShapes, MaxItems)}

\* the second company: absent, not a list, or a list of one position
OtherCompany ==
    {EmptyMap, Field("B", PyStr("x")),
     Field("B", PyList(<<PyDict(Field("job_title", PyStr("r"))
                                 @@ Field("include_in", PyList(<<TECH, ALL>>))
                                 @@ Field("highlights", Bullets(MaxBullets)))>>))}

WorkMaps ==
    {PyDict(Field("A", pl) @@ oc) : pl \in PositionLists, oc \in OtherCompany}
    \cup {PyDict(EmptyMap), PyList(<<PyStr("invalid")>>), PyNone,
          PyDict(Field("A", PyList(<<PyDict(Field("job_title", PyStr("u")))>>))
                 @@ Field("B", PyStr("x")) @@ Field("C", PyList(<<PyInt(5)>>)))}

WorkTagLists == {PyList(<<ALL>>), PyList(<<TECH>>), PyList(<<>>)}
WorkLimits == {PyNone, PyInt(1), PyInt(MaxLimit)}

(***************************************************************************)
(* State                                                                   *)
(***************************************************************************)
VARIABLES
    heap,           \* the containers allocated so far
    loaded,         \* the heap as the caller built it, before the call
    op,             \* the function the caller calls
    resume_data,    \* first argument: the document (items, bullets, work_data)
    profile,        \* the profile handed to filter_resume_data
    include_tags,   \* argument of the primitives, local of filter_resume_data
    max_bullets,    \* likewise
    filtered_data,  \* local of filter_resume_data: the copy being rewritten
    pc,             \* "start", a section name, "done" or "raised"
    result,         \* the returned value
    mutated,        \* the caller has written into the result
    self_result,    \* ResumeValidator.result
    file,           \* what the last validate_file found at its path
    errors_before,  \* len(self.result.errors) when the last call began
    calls,          \* calls of validate_file so far
    strict,         \* args.strict of the validator's command line
    exit_code,      \* the status main exited with, -1 while it runs
    returned,       \* outcome of the last call of a profile function
    other           \* a second filter_resume_data call on the same document

vvars == <<self_result, file, errors_before, calls, strict, exit_code>>
pvars == <<returned, other>>
vars == <<heap, loaded, op, resume_data, profile, include_tags, max_bullets,
          filtered_data, pc, result, mutated, self_result, file, errors_before, calls,
          strict, exit_code, returned, other>>

\* what validate_file finds at the path it is given
Loaded(d) == [error |-> "none", data |-> d]

\* lines 574-576: a validator that has not been called, under the flag s
NewValidator(s) ==
    /\ self_result = ValidationResult
    /\ file = Loaded(PyNone)
    /\ errors_before = 0
    /\ calls = 0
    /\ strict = s
    /\ exit_code = -1

\* no profile function has been called, no second call is under way
NoOther ==
    /\ returned = PyNone
    /\ other = PyNone

\* no validator in the calls of the filter
NoValidator == NewValidator(FALSE) /\ NoOther

\* the caller's arguments, as trees
Input(v) == Val(loaded, v)

(***************************************************************************)
(* Calls of the primitives                                                 *)
(***************************************************************************)
PrimCalls ==
    {[op |-> "filter_items", x |-> x, tags |-> t, max |-> PyNone] :
        x \in ItemLists, t \in TagLists}
    \cup
    {[op |-> "apply_bullet_limit", x |-> x, tags |-> PyNone, max |-> m] :
        x \in BulletLists, m \in Limits}
    \cup
    {[op |-> "filter_work_experience", x |-> x, tags |-> t, max |-> m] :
        x \in WorkMaps, t \in WorkTagLists, m \in WorkLimits}

\* the caller builds two arguments, one after the other
LoadArgs(x, y) ==
    Then(Build(EmptyHeap, x),
         LAMBDA h1, a : Then(Build(h1, y), LAMBDA h2, b : Ret(h2, <<a, b>>)))

\* the state before a call of a primitive on the arguments l
CallPrim(f, l, max) ==
    /\ heap = l.h
    /\ loaded = l.h
    /\ op = f
    /\ resume_data = l.v[1]
    /\ profile = PyNone
    /\ include_tags = l.v[2]
    /\ max_bullets = max
    /\ filtered_data = PyNone
    /\ pc = "start"
    /\ result = PyNone
    /\ mutated = FALSE
    /\ NoValidator

InitPrim == \E c \in PrimCalls : CallPrim(c.op, LoadArgs(c.x, c.tags), c.max)

\* the call returns r
Return(r) ==
    /\ heap' = r.h
    /\ result' = r.v
    /\ pc' = IF r.err THEN "raised" ELSE "done"

FilterItems ==
    /\ op = "filter_items" /\ pc = "start"
    /\ Return(filter_items(heap, resume_data, include_tags))
    /\ UNCHANGED <<loaded, op, resume_data, profile, include_tags, max_bullets,
                   filtered_data, mutated>>
    /\ UNCHANGED <<vvars, pvars>>

ApplyBulletLimit ==
    /\ op = "apply_bullet_limit" /\ pc = "start"
    /\ Return(apply_bullet_limit(heap, resume_data, max_bullets))
    /\ UNCHANGED <<loaded, op, resume_data, profile, include_tags, max_bullets,
                   filtered_data, mutated>>
    /\ UNCHANGED <<vvars, pvars>>

FilterWorkExperience ==
    /\ op = "filter_work_experience" /\ pc = "start"
    /\ Return(filter_work_experience(heap, resume_data, include_tags, max_bullets))
    /\ UNCHANGED <<loaded, op, resume_data, profile, include_tags, max_bullets,
                   filtered_data, mutated>>
    /\ UNCHANGED <<vvars, pvars>>

(***************************************************************************)
(* The caller owns the result: it assigns to a key of a mapping or to an   *)
(* index of a list anywhere inside it (result[0]["name"] = "Modified")     *)
(***************************************************************************)
MODIFIED == PyStr("Modified")

MutateResult ==
    /\ pc = "done" /\ ~mutated
    /\ \E a \in Reach(heap, result) :
         \/ /\ heap.m[a].t = "dict"
            /\ \E k \in DOMAIN heap.m[a].d :
                 heap' = [heap EXCEPT !.m[a] = PyDict([@.d EXCEPT ![k] = MODIFIED])]
         \/ /\ heap.m[a].t = "list"
            /\ \E i \in 1..Len(heap.m[a].l) :
                 heap' = [heap EXCEPT !.m[a] = PyList([@.l EXCEPT ![i] = MODIFIED])]
    /\ mutated' = TRUE
    /\ UNCHANGED <<loaded, op, resume_data, profile, include_tags, max_bullets,
                   filtered_data, pc, result>>
    /\ UNCHANGED <<vvars, pvars>>

NextPrim == FilterItems \/ ApplyBulletLimit \/ FilterWorkExperience \/ MutateResult

SpecPrim == InitPrim /\ [][NextPrim]_vars

(***************************************************************************)
(* Documents and profiles                                                  *)
(***************************************************************************)
\* sections the filter never looks at; their entries may carry include_in
Basics ==
    PyDict(Field("name", PyStr("Colin"))
           @@ Field("location", PyDict(Field("city", PyStr("X")))))
Interests ==
    PyList(<<PyDict(Field("name", PyStr("Coding")) @@ Field("include_in", PyList(<<TECH>>)))>>)
Meta == PyDict(Field("version", PyStr("1")) @@ Field("include_in", PyList(<<LEAD>>)))
Languages ==
    PyList(<<PyDict(Field("language", PyStr("en")) @@ Field("include_in", PyList(<<LEAD>>))),
             PyStr("fr")>>)
Volunteer ==
    PyList(<<PyDict(Field("organization", PyStr("o")) @@ Field("include_in", PyList(<<LEAD>>))),
             PyDict(Field("organization", PyStr("v")))>>)
\* the sections no block of lines 309-396 names: the four of line 398, left
\* as the deep copy made them, and volunteer
PassedOn ==
    Field("basics", Basics) @@ Field("interests", Interests)
    @@ Field("meta", Meta) @@ Field("languages", Languages)
    @@ Field("volunteer", Volunteer)

DocItemShapes ==
    {PyDict(Field("name", PyStr("u"))),
     PyDict(Field("name", PyStr("n")) @@ Field("include_in", PyList(<<ALL>>))),
     PyDict(Field("name", PyStr("n")) @@ Field("include_in", PyList(<<TECH>>))),
     PyDict(Field("name", PyStr("n")) @@ Field("include_in", PyStr(""))),
     PyStr("s")}
DocItemLists == {PyList(l) : l \in SeqsUpTo(DocItemShapes, MaxItems)}

\* the sections with one list each, for the sections handled like education
FewItemLists ==
    {PyList(<<>>),
     PyList(<<PyDict(Field("name", PyStr("u"))),
              PyDict(Field("name", PyStr("n")) @@ Field("include_in", PyList(<<TECH>>)))>>)}

ProjectShapes ==
    {PyDict(Field("name", PyStr("p")) @@ Field("include_in", PyList(<<TECH>>))
            @@ Field("highlights", Bullets(MaxBullets))),
     PyDict(Field("name", PyStr("q")) @@ Field("highlights", TaggedBullets(MaxBullets))),
     PyDict(Field("name", PyStr("r")) @@ Field("include_in", PyList(<<ALL>>))),
     PyStr("s")}
ProjectLists == {PyList(l) : l \in SeqsUpTo(ProjectShapes, MaxItems)}

\* entries of the legacy flat work list
JobShapes ==
    {PyDict(Field("name", PyStr("A")) @@ Field("include_in", PyList(<<TECH>>))
            @@ Field("highlights", Bullets(MaxBullets))),
     PyDict(Field("name", PyStr("B")) @@ Field("highlights", TaggedBullets(MaxBullets))
            @@ Field("responsibilities", Bullets(MaxBullets))),
     PyDict(Field("name", PyStr("C")) @@ Field("include_in", PyStr(""))
            @@ Field("highlights", Bullets(1))),
     PyStr("s")}
JobLists == {PyList(l) : l \in SeqsUpTo(JobShapes, MaxItems)}

DocPositionShapes ==
    {PyDict(Field("job_title", PyStr("p")) @@ Field("include_in", PyList(<<TECH, ALL>>))
            @@ Field("responsibilities", Bullets(MaxBullets))),
     PyDict(Field("job_title", PyStr("q")) @@ Field("include_in", PyList(<<TECH>>))
            @@ Field("responsibilities", TaggedBullets(MaxBullets))
            @@ Field("highlights", Bullets(MaxBullets))),
     PyDict(Field("job_title", PyStr("u")) @@ Field("responsibilities", Bullets(1))),
     PyStr("s")}
DocWorkMaps ==
    {PyDict(Field("A", PyList(l)) @@ oc) :
        l \in SeqsUpTo(DocPositionShapes, MaxItems), oc \in OtherCompany}
    \cup {PyDict(EmptyMap), PyList(<<PyStr("invalid")>>)}

\* one filterable section
OneSection ==
    {Field("work_experience", w) : w \in DocWorkMaps}
    \cup {Field("work", w) : w \in JobLists}
    \cup {Field("education", e) : e \in DocItemLists}
    \cup {Field("projects", e) : e \in ProjectLists}
    \cup {Field(sec, e) :
            sec \in {"awards", "certifications", "certificates",
                     "specialty_skills", "skills"},
            e \in FewItemLists}

\* what else the document holds
Rest ==
    {Field("basics", Basics),
     PassedOn
        @@ Field("education", PyList(<<PyDict(Field("name", PyStr("u"))),
                   PyDict(Field("name", PyStr("n")) @@ Field("include_in", PyList(<<TECH>>)))>>))}

\* a document with every section the filter handles, and those it passes on
FullDocument ==
    PyDict(PassedOn
           @@ Field("work_experience",
                PyDict(Field("A", PyList(<<
                    PyDict(Field("job_title", PyStr("q"))
                           @@ Field("include_in", PyList(<<TECH>>))
                           @@ Field("responsibilities", TaggedBullets(MaxBullets))
                           @@ Field("highlights", Bullets(MaxBullets)))>>))))
           @@ Field("work", PyList(<<
                    PyDict(Field("name", PyStr("A")) @@ Field("include_in", PyList(<<TECH>>))
                           @@ Field("highlights", Bullets(MaxBullets)))>>))
           @@ Field("projects", PyList(<<
                    PyDict(Field("name", PyStr("r")) @@ Field("include_in", PyList(<<ALL>>)))>>))
           @@ [sec \in {"education", "awards", "certifications", "certificates",
                        "specialty_skills", "skills"} |->
                 PyList(<<PyDict(Field("name", PyStr("u"))),
                          PyDict(Field("name", PyStr("n"))
                                 @@ Field("include_in", PyList(<<TECH>>)))>>)])

\* a value of the wrong shape for the section sec: a scalar, None, a list
\* where a mapping is expected, a mapping where a list is expected
Malformed(sec) ==
    {PyNone, PyInt(5), PyStr("xy"),
     IF sec = "work_experience" THEN PyList(<<PyStr("invalid")>>)
     ELSE PyDict(Field("a", PyInt(1)))}

\* the full document with one filterable section malformed
MalformedDocuments ==
    UNION {{PyDict([FullDocument.d EXCEPT ![sec] = v]) : v \in Malformed(sec)} :
              sec \in Range(Sections)}

Documents ==
    {PyDict(one @@ rest) : one \in OneSection, rest \in Rest}
    \cup {PyDict(PassedOn), PyDict(EmptyMap), PyNone}
    \cup MalformedDocuments

\* a document of each kind, for the profiles that are enumerated in full
CoreDocuments ==
    {FullDocument, PyDict(PassedOn)}
    \cup
    {PyDict(Field("basics", Basics)
            @@ Field("work_experience",
                 PyDict(Field("A", PyList(<<d1, d2>>))))
            @@ Field("work", PyList(<<j>>))
            @@ Field("projects", PyList(<<p>>))
            @@ Field("education", e)) :
        d1 \in {x \in DocPositionShapes : x.t = "dict" /\ "include_in" \in DOMAIN x.d},
        d2 \in {x \in DocPositionShapes : x.t = "dict" /\ "include_in" \notin DOMAIN x.d},
        j \in {x \in JobShapes : x.t = "dict" /\ "include_in" \notin DOMAIN x.d},
        p \in {x \in ProjectShapes : x.t = "dict" /\ "include_in" \notin DOMAIN x.d},
        e \in FewItemLists}

Named == Field("profile", PyDict(Field("name", PyStr("Test"))))

FilterTags ==
    {EmptyMap} \cup
    {Field("include_tags", t) :
        t \in {PyList(<<ALL>>), PyList(<<TECH>>), PyList(<<TECH, ALL>>), PyList(<<>>),
               TECH, PyStr(""), PyInt(0), PyNone}}
FilterLimits == {EmptyMap} \cup {Field("max_bullets_per_job", m) : m \in Limits}

Profiles ==
    {PyDict(Named @@ Field("filters", PyDict(t @@ m))) : t \in FilterTags, m \in FilterLimits}
    \cup {PyDict(Named), PyDict(EmptyMap), PyNone}

CoreProfiles ==
    {PyNone, PyDict(EmptyMap), PyDict(Named),
     PyDict(Named @@ Field("filters", PyDict(Field("include_tags", PyList(<<ALL>>))))),
     PyDict(Named @@ Field("filters", PyDict(Field("include_tags", PyList(<<>>))))),
     PyDict(Named @@ Field("filters", PyDict(Field("include_tags", PyList(<<TECH>>))
                                              @@ Field("max_bullets_per_job", PyInt(1))))),
     PyDict(Named @@ Field("filters", PyDict(Field("include_tags", PyList(<<TECH, ALL>>))
                                              @@ Field("max_bullets_per_job", PyInt(MaxLimit)))))}

Calls ==
    (Documents \X CoreProfiles) \cup (CoreDocuments \X Profiles)

(***************************************************************************)
(* filter_resume_data, one block of the function per step                  *)
(***************************************************************************)
\* the state before filter_resume_data is called on the arguments l
CallFilter(l) ==
    /\ heap = l.h
    /\ loaded = l.h
    /\ op = "filter_resume_data"
    /\ resume_data = l.v[1]
    /\ profile = l.v[2]
    /\ include_tags = PyNone
    /\ max_bullets = PyNone
    /\ filtered_data = PyNone
    /\ pc = "start"
    /\ result = PyNone
    /\ mutated = FALSE
    /\ NoValidator

Init == \E c \in Calls : CallFilter(LoadArgs(c[1], c[2]))

\* the entry e takes effect: the call is over, or the locals are set
Entered(e) ==
    IF e.done
    THEN /\ Return(e)
         /\ UNCHANGED <<include_tags, max_bullets, filtered_data>>
    ELSE /\ heap' = e.h
         /\ include_tags' = e.tags
         /\ max_bullets' = e.max
         /\ filtered_data' = e.v
         /\ pc' = Sections[1]
         /\ UNCHANGED result

\* lines 291-307
Enter ==
    /\ op = "filter_resume_data" /\ pc = "start"
    /\ Entered(enter(heap, resume_data, profile))
    /\ UNCHANGED <<loaded, op, resume_data, profile, mutated>>
    /\ UNCHANGED <<vvars, pvars>>

SectionIndex(sec) == CHOOSE i \in 1..Len(Sections) : Sections[i] = sec

\* block number i has run with outcome r: an exception escapes, the next
\* block is due, or line 401 returns filtered_data
Filtered(i, r) ==
    IF r.err THEN Return(r)
    ELSE /\ heap' = r.h
         /\ IF i < Len(Sections)
            THEN pc' = Sections[i + 1] /\ UNCHANGED result
            ELSE pc' = "done" /\ result' = filtered_data

\* one of the blocks of lines 309-396; the last one is followed by the return
FilterSection ==
    /\ op = "filter_resume_data"
    /\ pc \in Range(Sections)
    /\ Filtered(SectionIndex(pc),
                filter_section(heap, pc, resume_data, filtered_data,
                               include_tags, max_bullets))
    /\ UNCHANGED <<loaded, op, resume_data, profile, include_tags, max_bullets,
                   filtered_data, mutated>>
    /\ UNCHANGED <<vvars, pvars>>

Next == Enter \/ FilterSection

Spec == Init /\ [][Next]_vars

\* the three functions whose result the caller goes on to write into
OwnCalls == {c \in PrimCalls : c.op \in {"filter_items", "apply_bullet_limit"}}
InitOwn ==
    \/ \E c \in OwnCalls : CallPrim(c.op, LoadArgs(c.x, c.tags), c.max)
    \/ \E c \in CoreDocuments \X Profiles : CallFilter(LoadArgs(c[1], c[2]))
NextOwn == Enter \/ FilterSection \/ FilterItems \/ ApplyBulletLimit \/ MutateResult
SpecOwn == InitOwn /\ [][NextOwn]_vars

\* the three places that retain the entries of a list in a loop: filter_items,
\* the positions of a company, the flat work list
OrderCalls == {c \in PrimCalls : c.op \in {"filter_items", "filter_work_experience"}}
LegacyDocuments ==
    {PyDict(Field("work", w) @@ rest) : w \in JobLists, rest \in Rest}
InitOrder ==
    \/ \E c \in OrderCalls : CallPrim(c.op, LoadArgs(c.x, c.tags), c.max)
    \/ \E c \in LegacyDocuments \X CoreProfiles : CallFilter(LoadArgs(c[1], c[2]))
NextOrder == Enter \/ FilterSection \/ FilterItems \/ FilterWorkExperience
SpecOrder == InitOrder /\ [][NextOrder]_vars

(***************************************************************************)
(* Documents for the validator                                             *)
(***************************************************************************)
\* the record rec without the fields outside keep
Only(rec, keep) == PyDict([k \in DOMAIN rec.d \cap keep |-> rec.d[k]])
With(rec, k, v) == PyDict(Field(k, v) @@ rec.d)

GoodBasics ==
    PyDict(Field("name", PyStr("Colin")) @@ Field("email", PyStr("a@b.co")))
GoodPosition ==
    PyDict(Field("job_title", PyStr("p")) @@ Field("location", PyStr("X"))
           @@ Field("start_date", PyStr("2023-01")) @@ Field("end_date", PyStr("Present")))
GoodEducation ==
    PyDict(Field("institution", PyStr("u")) @@ Field("area", PyStr("cs"))
           @@ Field("studyType", PyStr("BS")) @@ Field("startDate", PyStr("2023"))
           @@ Field("endDate", PyStr("2020-06-15")))
GoodCertification ==
    PyDict(Field("title", PyStr("c")) @@ Field("date", PyStr("2023-19-39"))
           @@ Field("url", PyStr("https://x.y/p")))

\* include_in as the validator may meet it
IncludeInShapes ==
    {TECH, PyNone, PyInt(0), PyDict(EmptyMap), PyList(<<>>),
     PyList(<<ALL>>), PyList(<<TECH>>), PyList(<<TECH, LEAD>>),
     PyList(<<ALL, TECH>>), PyList(<<TECH, ALL>>), PyList(<<ALL, ALL>>),
     PyList(<<PyStr("bogus")>>), PyList(<<ALL, PyStr("bogus")>>),
     PyList(<<TECH, PyStr("bogus"), PyStr("x")>>),
     PyList(<<PyInt(5)>>), PyList(<<TECH, PyInt(5)>>), PyList(<<ALL, PyList(<<TECH>>)>>)}

BasicsShapes ==
    {Only(GoodBasics, keep) : keep \in SUBSET {"name", "email"}}
    \cup {With(GoodBasics, "email", e) : e \in {PyStr("a@b.c"), PyStr("a-at-b"), PyStr(""), PyInt(5)}}
    \cup {With(GoodBasics, "url", u) :
            u \in {PyStr("https://x.y/p"), PyStr("ftp://x.y"), PyInt(5)}}
    \cup {With(GoodBasics, "profiles", p) :
            p \in {PyList(<<PyDict(Field("network", PyStr("gh"))
                                   @@ Field("url", PyStr("http://x.y:80"))),
                            PyDict(Field("url", PyStr("x.y")))>>),
                   PyInt(5)}}
    \cup {PyStr("xy"), PyStr("email"), PyInt(5), PyList(<<PyStr("name")>>)}

\* bullets: a string, a tagged record, a record without description and
\* with an unknown tag, a number, a record with an unknown tag
NestedBullets ==
    PyList(<<PyStr("b1"),
             PyDict(Field("description", PyStr("b2")) @@ Field("include_in", PyList(<<TECH>>))),
             PyDict(Field("include_in", PyList(<<PyStr("bogus")>>))),
             PyInt(5),
             PyDict(Field("description", PyStr("b5"))
                    @@ Field("include_in", PyList(<<PyStr("bogus")>>)))>>)
GoodProject ==
    PyDict(Field("name", PyStr("p")) @@ Field("description", PyStr("d"))
           @@ Field("startDate", PyStr("2023")) @@ Field("roles", PyList(<<>>))
           @@ Field("type", PyStr("t")))

ValPositionShapes ==
    {Only(GoodPosition, keep) :
        keep \in SUBSET {"job_title", "location", "start_date", "end_date"}}
    \cup {With(GoodPosition, "include_in", tv) : tv \in IncludeInShapes}
    \cup {With(GoodPosition, "start_date", PyStr("01/2023")),
          With(GoodPosition, "end_date", PyInt(2023)),
          With(GoodPosition, "responsibilities", NestedBullets),
          With(GoodPosition, "responsibilities", PyInt(5)),
          With(GoodPosition, "highlights", NestedBullets),
          With(With(GoodPosition, "highlights", NestedBullets), "responsibilities",
               PyList(<<PyStr("b1")>>)),
          With(GoodPosition, "projects",
               PyList(<<PyDict(Field("name", PyStr("n")) @@ Field("description", PyStr("d"))),
                        PyDict(Field("name", PyStr("n"))
                               @@ Field("include_in", PyList(<<>>)))>>)),
          PyStr("s"), PyInt(5)}

ValWorkMaps ==
    {PyDict(Field("A", PyList(<<p>>))) : p \in ValPositionShapes}
    \cup {PyDict(Field("A", PyList(<<GoodPosition, p>>))) :
            p \in {Only(GoodPosition, {"job_title", "end_date"}),
                   With(GoodPosition, "include_in", PyList(<<PyStr("bogus")>>))}}
    \cup {PyDict(Field("A", PyStr("x"))),
          PyDict(Field("A", PyList(<<GoodPosition>>)) @@ Field("B", PyStr("x"))),
          PyDict(Field("B", PyStr("x")) @@ Field("C", PyList(<<PyInt(5)>>))),
          PyList(<<PyStr("invalid")>>), PyStr("xy"), PyInt(5), PyList(<<>>), PyNone}

ValEducationShapes ==
    {Only(GoodEducation, keep) :
        keep \in {{}, {"institution"}, {"institution", "area", "studyType"},
                  {"area", "studyType", "startDate", "endDate"},
                  {"institution", "area", "studyType", "startDate", "endDate"}}}
    \cup {With(GoodEducation, "include_in", tv) : tv \in IncludeInShapes}
    \cup {With(GoodEducation, "startDate", PyStr("3023")),
          With(GoodEducation, "endDate", PyStr("2023\n")),
          PyStr("s"), PyInt(5)}
ValEducations ==
    {PyList(<<e>>) : e \in ValEducationShapes}
    \cup {PyList(<<GoodEducation, Only(GoodEducation, {"institution", "area"})>>),
          PyInt(5), PyStr("xy"), PyDict(Field("a", PyInt(1)))}

ValCertificationShapes ==
    {Only(GoodCertification, keep) : keep \in SUBSET {"title", "date", "url"}}
    \cup {With(GoodCertification, "acronym", PyInt(5)),
          With(GoodCertification, "acronym", PyNone),
          With(GoodCertification, "url", PyStr("x.y")),
          With(GoodCertification, "url", PyInt(5)),
          With(GoodCertification, "badge_url", PyStr("ftp://x.y")),
          With(GoodCertification, "date", PyStr("2023-1")),
          With(GoodCertification, "include_in", PyList(<<ALL, TECH>>)),
          PyInt(5)}
ValCertifications ==
    {PyList(<<c>>) : c \in ValCertificationShapes}
    \cup {PyList(<<GoodCertification, Only(GoodCertification, {"title"})>>)}

\* the sections validated like education, a good and a bad entry each
OtherSections ==
    {Field("awards", PyList(<<
        PyDict(Field("title", PyStr("a")) @@ Field("date", PyStr("2023"))
               @@ Field("awarder", PyStr("w"))),
        PyDict(Field("title", PyStr("a")) @@ Field("date", PyStr("01/2023"))
               @@ Field("include_in", PyList(<<ALL, LEAD>>)))>>)),
     Field("projects", PyList(<<
        PyDict(Field("name", PyStr("p")) @@ Field("description", PyStr("d"))
               @@ Field("startDate", PyStr("2023")) @@ Field("roles", PyList(<<>>))
               @@ Field("type", PyStr("t")) @@ Field("url", PyStr("https://x.y/p"))
               @@ Field("highlights", PyList(<<PyStr("b1"),
                                               PyDict(Field("include_in", TECH))>>))),
        PyDict(Field("name", PyStr("p")) @@ Field("endDate", PyStr("3023"))
               @@ Field("url", PyStr("x.y")) @@ Field("include_in", PyList(<<>>)))>>)),
     Field("volunteer", PyList(<<
        PyDict(Field("organization", PyStr("o")) @@ Field("position", PyStr("p"))
               @@ Field("startDate", PyStr("2023")) @@ Field("endDate", PyStr("Present"))),
        PyDict(Field("organization", PyStr("o")) @@ Field("startDate", PyInt(2023))
               @@ Field("include_in", PyList(<<PyStr("bogus")>>)))>>)),
     Field("specialty_skills", PyList(<<
        PyDict(Field("name", PyStr("s")) @@ Field("keywords", PyList(<<>>))),
        PyDict(Field("name", PyStr("s")) @@ Field("include_in", PyList(<<TECH, ALL>>)))>>)),
     Field("projects", PyList(<<With(GoodProject, "highlights", NestedBullets)>>)),
     Field("specialty_skills", PyInt(5))}

\* a document with nothing to report
CleanDocument ==
    PyDict(Field("basics", GoodBasics)
           @@ Field("work_experience", PyDict(Field("A", PyList(<<GoodPosition>>))))
           @@ Field("education", PyList(<<GoodEducation>>))
           @@ Field("certifications", PyList(<<GoodCertification>>)))

\* no basics.email, and one position with an invalid date and an unknown tag
ThreeDefects ==
    {PyDict(Field("basics", Only(GoodBasics, {"name"}))
            @@ Field("work_experience", PyDict(Field("A", PyList(front \o <<
                With(With(GoodPosition, date, PyStr("01/2023")), "include_in", tv)>>))))
            @@ rest) :
        front \in {<<>>, <<GoodPosition>>},
        date \in {"start_date", "end_date"},
        tv \in {PyList(<<PyStr("bogus")>>), PyList(<<TECH, PyStr("bogus")>>)},
        rest \in {EmptyMap, Field("education", PyList(<<GoodEducation>>))}}

\* a work_experience of the wrong shape, with or without basics before it
\* and a defective education entry after it
ShortPosition == Only(GoodPosition, {"job_title", "end_date"})
ShortEducation == Only(GoodEducation, {"institution", "area"})
WrongWork ==
    {PyStr("xy"), PyList(<<PyStr("invalid")>>), PyInt(5), PyList(<<>>), PyInt(0), PyNone,
     PyDict(Field("A", PyList(<<ShortPosition>>)) @@ Field("B", PyStr("x"))),
     PyDict(Field("A", PyInt(5)) @@ Field("B", PyNone) @@ Field("C", PyList(<<ShortPosition>>)))}
StructuralDocuments ==
    {PyDict(front @@ Field("work_experience", w) @@ rest) :
        front \in {EmptyMap, Field("basics", GoodBasics)},
        w \in WrongWork,
        rest \in {EmptyMap, Field("education", PyList(<<ShortEducation>>))}}

ValDocuments ==
    {PyDict(Field("basics", b)) : b \in BasicsShapes}
    \cup {PyDict(Field("basics", GoodBasics) @@ Field("work_experience", w)) : w \in ValWorkMaps}
    \cup {PyDict(Field("basics", GoodBasics) @@ Field("education", e)) : e \in ValEducations}
    \cup {PyDict(Field("basics", GoodBasics) @@ Field("certifications", c)) :
            c \in ValCertifications}
    \cup {PyDict(Field("basics", GoodBasics) @@ sec) : sec \in OtherSections}
    \cup ThreeDefects
    \cup StructuralDocuments
    \cup {CleanDocument, PyDict(EmptyMap), PyDict(Field("education", PyList(<<GoodEducation>>))),
          PyList(<<>>), PyList(<<PyStr("basics")>>), PyStr("xy"), PyInt(5), PyNone}

\* what validate_file may find at the path it is given
Files ==
    {Loaded(d) : d \in ValDocuments}
    \cup {[error |-> e, data |-> PyNone] : e \in {"FileNotFoundError", "YAMLError"}}

\* the files a validator that has been used before is given
LaterFiles ==
    {Loaded(CleanDocument), Loaded(PyDict(Field("basics", Only(GoodBasics, {"name"})))),
     Loaded(PyList(<<>>))}

(***************************************************************************)
(* ResumeValidator: one instance, validate_file called on it               *)
(***************************************************************************)
\* lines 113-115: ResumeValidator()
InitVal ==
    /\ heap = EmptyHeap
    /\ loaded = EmptyHeap
    /\ op = "validate_file"
    /\ resume_data = PyNone
    /\ profile = PyNone
    /\ include_tags = PyNone
    /\ max_bullets = PyNone
    /\ filtered_data = PyNone
    /\ pc = "idle"
    /\ result = PyNone
    /\ mutated = FALSE
    /\ \E s \in BOOLEAN : NewValidator(s)
    /\ NoOther

\* the call ends with outcome r
Validated(r) ==
    /\ self_result' = r.res
    /\ pc' = IF r.err THEN "raised" ELSE "done"

\* lines 117-145: validate_file on the instance, for the first time or again
ValidateFile ==
    /\ op = "validate_file"
    /\ calls < MaxCalls
    /\ exit_code = -1
    /\ \E f \in (IF calls = 0 THEN Files ELSE LaterFiles) :
         /\ file' = f
         /\ Validated(validate_file(self_result, f))
    /\ errors_before' = Len(self_result.errors)
    /\ calls' = calls + 1
    /\ UNCHANGED <<heap, loaded, op, resume_data, profile, include_tags, max_bullets,
                   filtered_data, result, mutated, strict, exit_code, returned, other>>

\* lines 91-100
has_errors(res) == Len(res.errors) > 0
has_warnings(res) == Len(res.warnings) > 0
is_valid(res, s) ==
    IF s THEN ~has_errors(res) /\ ~has_warnings(res)
    ELSE ~has_errors(res)

\* the same decision with the warnings looked at first
exit_status_warnings_first(res, s) ==
    IF s /\ has_warnings(res) THEN 2
    ELSE IF has_errors(res) THEN 1
    ELSE 0

\* lines 582-588
exit_status(res, s) ==
    IF has_errors(res) THEN 1
    ELSE IF s /\ has_warnings(res) THEN 2
    ELSE 0

\* lines 578-588: main goes on from the validator's return to sys.exit; an
\* exception that escaped from validate_file ends the process with status 1
Exit ==
    /\ op = "validate_file"
    /\ pc \in {"done", "raised"}
    /\ exit_code = -1
    /\ exit_code' = IF pc = "raised" THEN 1 ELSE exit_status(self_result, strict)
    /\ UNCHANGED <<heap, loaded, op, resume_data, profile, include_tags, max_bullets,
                   filtered_data, pc, result, mutated, self_result, file, errors_before,
                   calls, strict, returned, other>>

NextVal == ValidateFile \/ Exit
SpecVal == InitVal /\ [][NextVal]_vars

(***************************************************************************)
(* Two calls of filter_resume_data on one document, each at its own place  *)
(* in the function; the heap is the only thing they have in common.  The   *)
(* frame of the second call is the record other.                           *)
(***************************************************************************)
TwoDocuments ==
    {FullDocument, PyDict(PassedOn), PyDict(EmptyMap),
     PyDict([FullDocument.d EXCEPT !["projects"] = PyInt(5)])}
TwoProfiles ==
    {PyNone, PyDict(Named),
     PyDict(Named @@ Field("filters", PyDict(Field("include_tags", PyList(<<TECH>>))
                                              @@ Field("max_bullets_per_job", PyInt(1))))),
     PyDict(Named @@ Field("filters", PyDict(Field("include_tags", PyList(<<TECH, ALL>>))
                                              @@ Field("max_bullets_per_job", PyInt(MaxLimit)))))}

\* the frame of a call that is about to start with the profile prof.  The
\* allocator never hands one address to two live containers, and which
\* addresses it hands out is of no consequence: the second call numbers its
\* structures from n on, the first from heap.n on.  overlap records that a
\* step of the second call fell between two steps of the first
NewFrame(prof) ==
    [profile |-> prof, include_tags |-> PyNone, max_bullets |-> PyNone,
     filtered_data |-> PyNone, pc |-> "start", result |-> PyNone,
     n |-> 1000, overlap |-> FALSE]

\* the heap as the second call allocates in it
View(h, n) == [h EXCEPT !.n = n]

\* the two callers hold the same document l.v[1] and the profiles l.v[2]
\* and prof
CallTwice(l, prof) ==
    /\ heap = l.h
    /\ loaded = l.h
    /\ op = "filter_resume_data"
    /\ resume_data = l.v[1]
    /\ profile = l.v[2]
    /\ include_tags = PyNone
    /\ max_bullets = PyNone
    /\ filtered_data = PyNone
    /\ pc = "start"
    /\ result = PyNone
    /\ mutated = FALSE
    /\ NewValidator(FALSE)
    /\ returned = PyNone
    /\ other = NewFrame(prof)

\* the second profile is an object of its own, or the one of the first call
LoadThird(l, z) == Then(Build(l.h, z), LAMBDA h, c : Ret(h, <<l.v[1], l.v[2], c>>))
InitTwo ==
    \/ \E x \in TwoDocuments, y \in TwoProfiles, z \in TwoProfiles :
         CallTwice(LoadThird(LoadArgs(x, y), z), LoadThird(LoadArgs(x, y), z).v[3])
    \/ \E x \in TwoDocuments, y \in TwoProfiles :
         CallTwice(LoadArgs(x, y), LoadArgs(x, y).v[2])

\* Entered for the second call
EnteredOther(e) ==
    /\ heap' = View(e.h, heap.n)
    /\ other' = IF e.done
                THEN [other EXCEPT !.result = e.v, !.n = e.h.n,
                                   !.overlap = @ \/ pc \in Range(Sections),
                                   !.pc = IF e.err THEN "raised" ELSE "done"]
                ELSE [other EXCEPT !.include_tags = e.tags, !.max_bullets = e.max,
                                   !.filtered_data = e.v, !.n = e.h.n,
                                   !.overlap = @ \/ pc \in Range(Sections),
                                   !.pc = Sections[1]]

\* lines 291-307, second call
EnterOther ==
    /\ op = "filter_resume_data" /\ other # PyNone /\ other.pc = "start"
    /\ EnteredOther(enter(View(heap, other.n), resume_data, other.profile))
    /\ UNCHANGED <<loaded, op, resume_data, profile, include_tags, max_bullets,
                   filtered_data, pc, result, mutated, vvars, returned>>

\* Filtered for the second call
Stepped(r) == [other EXCEPT !.n = r.h.n, !.overlap = @ \/ pc \in Range(Sections)]
FilteredOther(i, r) ==
    /\ heap' = View(r.h, heap.n)
    /\ other' = IF r.err THEN [Stepped(r) EXCEPT !.result = r.v, !.pc = "raised"]
                ELSE IF i < Len(Sections) THEN [Stepped(r) EXCEPT !.pc = Sections[i + 1]]
                ELSE [Stepped(r) EXCEPT !.pc = "done", !.result = other.filtered_data]

\* one of the blocks of lines 309-396, second call
FilterSectionOther ==
    /\ op = "filter_resume_data" /\ other # PyNone /\ other.pc \in Range(Sections)
    /\ FilteredOther(SectionIndex(other.pc),
                     filter_section(View(heap, other.n), other.pc, resume_data,
                                    other.filtered_data,
                                    other.include_tags, other.max_bullets))
    /\ UNCHANGED <<loaded, op, resume_data, profile, include_tags, max_bullets,
                   filtered_data, pc, result, mutated, vvars, returned>>

NextTwo == Enter \/ FilterSection \/ EnterOther \/ FilterSectionOther
SpecTwo == InitTwo /\ [][NextTwo]_vars

(***************************************************************************)
(* Profiles as the profile functions may meet them                         *)
(***************************************************************************)
\* what a profile file may hold under the key filters
FilterValues ==
    {PyNone, PyInt(5), PyInt(0), PyStr("xy"), PyStr("include_tags"), PyList(<<>>),
     PyList(<<PyStr("include_tags")>>), PyDict(EmptyMap),
     PyDict(Field("max_bullets_per_job", PyInt(1))),
     PyDict(Field("max_bullets_per_job", PyStr("xy"))),
     PyDict(Field("max_bullets_per_job", PyNone)),
     PyDict(Field("max_bullets_per_job", PyList(<<PyInt(1)>>))),
     PyDict(Field("include_tags", PyDict(EmptyMap))),
     PyDict(Field("include_tags", PyStr("xy")) @@ Field("max_bullets_per_job", PyStr("xy")))}

\* what it may hold under the key profile
ProfileSections ==
    {PyDict(Field("name", PyStr("Test"))), PyDict(EmptyMap), PyNone, PyStr("xy"),
     PyDict(Field("description", PyStr("d")) @@ Field("slug", PyStr("s")))}

Output_ == Field("output", PyDict(Field("filename", PyStr("resume-technical"))))

ProfileTrees ==
    Profiles
    \cup {PyDict(Named @@ Field("filters", fv)) : fv \in FilterValues}
    \cup {PyDict(Field("profile", ps) @@ rest) :
            ps \in ProfileSections,
            rest \in {EmptyMap, Field("filters", PyDict(Field("include_tags", PyList(<<TECH>>))))}}
    \cup {PyDict(Field("filters", PyDict(Field("include_tags", PyList(<<ALL>>))))),
          PyDict(Named @@ Output_), PyDict(Named @@ Field("output", PyNone)),
          PyDict(Output_)}

NonMappings == {PyList(<<>>), PyList(<<PyStr("filters")>>), PyStr("xy"), PyStr(""), PyInt(5), PyInt(0)}

\* what load_profile may find at profile_path
ProfileFiles ==
    {Loaded(d) : d \in ProfileTrees \cup NonMappings}
    \cup {[error |-> e, data |-> PyNone] : e \in {"FileNotFoundError", "YAMLError"}}

\* the arguments of validate_profile
ProfileArgs == ProfileTrees \cup NonMappings

(***************************************************************************)
(* Calls of load_profile and validate_profile                              *)
(***************************************************************************)
\* the state before a call of the profile function f on the heap value l,
\* the file x being at the path
CallProfile(f, l, x) ==
    /\ heap = l.h
    /\ loaded = l.h
    /\ op = f
    /\ resume_data = PyNone
    /\ profile = l.v
    /\ include_tags = PyNone
    /\ max_bullets = PyNone
    /\ filtered_data = PyNone
    /\ pc = "start"
    /\ result = PyNone
    /\ mutated = FALSE
    /\ self_result = ValidationResult
    /\ file = x
    /\ errors_before = 0
    /\ calls = 0
    /\ strict = FALSE
    /\ exit_code = -1
    /\ NoOther

InitProfile ==
    \/ \E x \in ProfileFiles : CallProfile("load_profile", Ret(EmptyHeap, PyNone), x)
    \/ \E a \in ProfileArgs :
         CallProfile("validate_profile", Build(EmptyHeap, a), Loaded(PyNone))

\* lines 40-79
LoadProfile ==
    /\ op = "load_profile" /\ pc = "start"
    /\ returned' = load_profile(file)
    /\ pc' = IF returned'.kind = "return" THEN "done" ELSE "raised"
    /\ UNCHANGED <<heap, loaded, op, resume_data, profile, include_tags, max_bullets,
                   filtered_data, result, mutated, vvars, other>>

\* lines 404-450
ValidateProfile ==
    /\ op = "validate_profile" /\ pc = "start"
    /\ returned' = validate_profile(Input(profile))
    /\ pc' = "done"
    /\ UNCHANGED <<heap, loaded, op, resume_data, profile, include_tags, max_bullets,
                   filtered_data, result, mutated, vvars, other>>

NextProfile == LoadProfile \/ ValidateProfile
SpecProfile == InitProfile /\ [][NextProfile]_vars

(***************************************************************************)
(* The caller of json_generator.py: filter_resume_data, then                *)
(* get_profile_info on the same profile                                    *)
(***************************************************************************)
\* profiles with a section that is not a mapping, and one with an output
\* section only
OddProfiles ==
    {PyDict(Field("filters", PyInt(5))),
     PyDict(Named @@ Field("output", PyInt(5))),
     PyDict(Field("output", PyDict(Field("filename", PyStr("cv")))))}

InfoCalls == (CoreDocuments \cup {PyDict(EmptyMap)}) \X (Profiles \cup OddProfiles)

InitInfo == \E c \in InfoCalls : CallFilter(LoadArgs(c[1], c[2]))

\* json_generator.py line 78, after the filter of line 77 has returned
GetProfileInfo ==
    /\ op = "filter_resume_data" /\ pc = "done" /\ returned = PyNone
    /\ returned' = get_profile_info(Input(profile))
    /\ UNCHANGED <<heap, loaded, op, resume_data, profile, include_tags, max_bullets,
                   filtered_data, pc, result, mutated, vvars, other>>

NextInfo == Enter \/ FilterSection \/ GetProfileInfo
SpecInfo == InitInfo /\ [][NextInfo]_vars

(***************************************************************************)
(* Properties.  They are stated on trees: the caller's arguments as they   *)
(* were handed over (Input) and the value returned (Output).               *)
(***************************************************************************)
Output == Val(heap, result)
Min(a, b) == IF a < b THEN a ELSE b

Returned(f) == op = f /\ pc = "done" /\ ~mutated

\* the tag list of a record after normalisation: missing and None give the
\* empty list, a bare scalar a one-element list, a list itself
NormalizedTags(item) ==
    IF "include_in" \notin DOMAIN item.d THEN <<>>
    ELSE LET raw == item.d["include_in"] IN
         IF raw.t = "list" THEN raw.l
         ELSE IF raw.t = "none" THEN <<>>
         ELSE <<raw>>

\* the inclusion rule for the requested tags T
Included(item, T) ==
    IF item.t # "dict" THEN ALL \in T
    ELSE \/ Range(NormalizedTags(item)) \cap T # {}
         \/ (NormalizedTags(item) = <<>> /\ ALL \in T)

Select(items, T) ==
    LET keep(item) == Included(item, T) IN SelectSeq(items, keep)

NonEmptyList(v) == v.t = "list" /\ v.l # <<>>

\* C1: with non-empty include_tags, filter_items returns exactly the items
\* the inclusion rule admits (records by their normalised tags, scalars iff
\* "all" is requested), and raises nothing
C1_TagRule ==
    op = "filter_items" =>
        /\ pc # "raised"
        /\ (Returned("filter_items") /\ NonEmptyList(Input(include_tags))
                /\ Input(resume_data).t = "list")
            => Output = PyList(Select(Input(resume_data).l,
                                      Range(Input(include_tags).l)))

\* C1 reached: "all" requested, a record tagged only "technical" is
\* excluded and an untagged record is retained
C1_Witness ==
    /\ Returned("filter_items")
    /\ Input(include_tags) = PyList(<<ALL>>)
    /\ Input(resume_data) =
          PyList(<<PyDict(Field("name", PyStr("n")) @@ Field("include_in", PyList(<<TECH>>))),
                   PyDict(Field("name", PyStr("u")))>>)
    /\ Output = PyList(<<PyDict(Field("name", PyStr("u")))>>)

\* C4: apply_bullet_limit returns the whole list when max_bullets is None
\* or not positive, and otherwise its first min(len, max_bullets) elements
C4_BulletLimit ==
    op = "apply_bullet_limit" =>
        /\ pc # "raised"
        /\ (Returned("apply_bullet_limit") /\ Input(resume_data).t = "list")
            => LET b == Input(resume_data).l IN
               Output = PyList(IF max_bullets.t = "none" \/ max_bullets.i <= 0
                               THEN b
                               ELSE SubSeq(b, 1, Min(Len(b), max_bullets.i)))

\* C4 reached: a list longer than a positive limit has been cut
C4_Witness ==
    /\ Returned("apply_bullet_limit")
    /\ max_bullets.t = "int" /\ max_bullets.i > 0
    /\ Input(resume_data).t = "list"
    /\ Len(Input(resume_data).l) > max_bullets.i
    /\ Len(Output.l) = max_bullets.i

\* the position-level rule: a position is a record whose tags (a list as it
\* is, a non-empty scalar alone, otherwise none) meet the requested tags, or
\* which has no tags while "all" is requested
PositionTagList(position) ==
    IF "include_in" \notin DOMAIN position.d THEN <<>>
    ELSE LET raw == position.d["include_in"] IN
         IF raw.t = "list" THEN raw.l
         ELSE IF raw \in {PyNone, PyStr(""), PyInt(0)} THEN <<>>
         ELSE <<raw>>
PositionRetained(position, T) ==
    /\ position.t = "dict"
    /\ \/ Range(PositionTagList(position)) \cap T # {}
       \/ (PositionTagList(position) = <<>> /\ ALL \in T)

CompaniesRetained(work, T) ==
    {c \in DOMAIN work.d :
        /\ work.d[c].t = "list"
        /\ \E i \in 1..Len(work.d[c].l) : PositionRetained(work.d[c].l[i], T)}

TruthyTree(v) ==
    CASE v.t = "none" -> FALSE
      [] v.t = "str" -> v.s # ""
      [] v.t = "int" -> v.i # 0
      [] v.t = "list" -> v.l # <<>>
      [] OTHER -> DOMAIN v.d # {}

\* the call went past the early returns: the settings were read
SettingsRead == op = "filter_resume_data" /\ include_tags.t = "ref"
\* the requested tags, once read
Requested == Range(Val(heap, include_tags).l)

\* the containers of the caller's document
SourceContainers == Reach(loaded, resume_data)
SourceIntact == \A a \in SourceContainers : heap.m[a] = loaded.m[a]

\* C2: while filter_resume_data runs and after it has returned, every
\* container of the caller's document, at any depth, holds what it held
\* before the call
C2_SourceUnchanged ==
    (op = "filter_resume_data" /\ ~mutated) => SourceIntact

\* C2 reached: a call with a bullet limit has returned a document that
\* differs from the source, whose projects still have all their highlights
C2_Witness ==
    /\ Returned("filter_resume_data")
    /\ max_bullets.t = "int" /\ max_bullets.i > 0
    /\ "projects" \in DOMAIN Input(resume_data).d
    /\ Output.d["projects"] # Input(resume_data).d["projects"]
    /\ Val(heap, resume_data) = Input(resume_data)

\* C3: what filter_items, apply_bullet_limit and filter_resume_data return
\* has no container in common with what the caller handed over, and a write
\* into the result leaves the source as it was
C3_NoSharing ==
    (op \in {"filter_items", "apply_bullet_limit", "filter_resume_data"} /\ pc = "done")
        => /\ Reach(heap, result) \cap DOMAIN loaded.m = {}
           /\ mutated => Val(heap, resume_data) = Input(resume_data)

\* C3 reached: without a profile the copy of a document with a pass-through
\* section has been written into, and differs from the source
C3_Witness ==
    /\ op = "filter_resume_data" /\ pc = "done" /\ mutated
    /\ ~TruthyTree(Input(profile))
    /\ "interests" \in DOMAIN Input(resume_data).d
    /\ Output # Input(resume_data)

\* bullets[:m] for a positive m, the bullets themselves otherwise
Cut(b, m) ==
    IF b.t = "list" /\ m.t = "int" /\ m.i > 0
    THEN PyList(SubSeq(b.l, 1, Min(Len(b.l), m.i)))
    ELSE b
CutField(rec, f, m) ==
    IF rec.t = "dict" /\ f \in DOMAIN rec.d
    THEN PyDict([rec.d EXCEPT ![f] = Cut(@, m)])
    ELSE rec
\* a position with each bullet-bearing field cut
Limited(rec, m) == CutField(CutField(rec, "responsibilities", m), "highlights", m)
LimitedAll(s, m) == [i \in 1..Len(s) |-> Limited(s[i], m)]
HighlightsCut(s, m) == [i \in 1..Len(s) |-> CutField(s[i], "highlights", m)]

RetainedPositions(s, T) ==
    LET keep(position) == PositionRetained(position, T) IN SelectSeq(s, keep)

\* the positions under work_experience: both fields cut
GroupedLimited ==
    (SettingsRead /\ pc = "done" /\ ~mutated
        /\ "work_experience" \in DOMAIN Input(resume_data).d
        /\ Input(resume_data).d["work_experience"].t = "dict")
    => \A c \in DOMAIN Output.d["work_experience"].d :
          Output.d["work_experience"].d[c] =
             PyList(LimitedAll(RetainedPositions(
                       Input(resume_data).d["work_experience"].d[c].l, Requested),
                    max_bullets))

\* the positions of the flat work list: both fields cut
LegacyLimited ==
    (SettingsRead /\ pc = "done" /\ ~mutated /\ "work" \in DOMAIN Input(resume_data).d
        /\ Input(resume_data).d["work"].t = "list")
    => Output.d["work"] =
          PyList(LimitedAll(RetainedPositions(Input(resume_data).d["work"].l, Requested),
                            max_bullets))

\* the projects: highlights cut
ProjectsLimited ==
    (SettingsRead /\ pc = "done" /\ ~mutated /\ "projects" \in DOMAIN Input(resume_data).d
        /\ Input(resume_data).d["projects"].t = "list")
    => Output.d["projects"] =
          PyList(HighlightsCut(Select(Input(resume_data).d["projects"].l, Requested),
                               max_bullets))

\* C5: with a positive max_bullets_per_job every retained position, grouped
\* or in the flat work list, has responsibilities and highlights cut to
\* their first m entries, and every retained project its highlights; with
\* no limit nothing is shortened
C5_EveryBulletField == GroupedLimited /\ LegacyLimited /\ ProjectsLimited

\* the flat work list as the code treats it: highlights only
LegacyHighlightsCut ==
    (SettingsRead /\ pc = "done" /\ ~mutated /\ "work" \in DOMAIN Input(resume_data).d
        /\ Input(resume_data).d["work"].t = "list")
    => Output.d["work"] =
          PyList(HighlightsCut(RetainedPositions(Input(resume_data).d["work"].l, Requested),
                               max_bullets))

\* the outcome r of a call is the tree t
Yields(r, t) == ~r.err /\ Val(r.h, r.v) = t

\* C7: filtering the returned document again with the same profile returns
\* an equal document
C7_Idempotent ==
    Returned("filter_resume_data")
        => Yields(filter_resume_data(heap, result, profile), Output)

\* C7 reached: a call with a tag filter and a bullet limit has dropped or
\* cut something of a document with positions, jobs and projects
C7_Witness ==
    /\ Returned("filter_resume_data") /\ SettingsRead
    /\ max_bullets.t = "int" /\ max_bullets.i > 0
    /\ Requested = {TECH}
    /\ {"work_experience", "work", "projects"} \subseteq DOMAIN Output.d
    /\ Output.d["work_experience"] # Input(resume_data).d["work_experience"]
    /\ Output.d["work_experience"] # PyDict(EmptyMap)

\* a profile that asks for every tag and sets no limit
AllProfile ==
    PyDict(Named @@ Field("filters", PyDict(Field("include_tags", PyList(<<ALL>>)))))
\* the source filtered with that profile
FilteredWithAll ==
    Then(Build(heap, AllProfile), LAMBDA h, p : filter_resume_data(h, resume_data, p))

\* the records of a section: the entries of a list, the positions of the
\* companies of a mapping
Entries(section) ==
    IF section.t = "list" THEN Range(section.l)
    ELSE IF section.t = "dict"
    THEN UNION {IF section.d[c].t = "list" THEN Range(section.d[c].l) ELSE {} :
                    c \in DOMAIN section.d}
    ELSE {}
\* include_in is a non-empty list that does not hold "all"
TagListLacksAll(item) ==
    /\ item.t = "dict"
    /\ "include_in" \in DOMAIN item.d
    /\ NonEmptyList(item.d["include_in"])
    /\ ALL \notin Range(item.d["include_in"].l)

\* the document has an item, in whatever section, whose tags lack "all"
HasItemLackingAll(D) ==
    D.t = "dict" /\ \E k \in DOMAIN D.d : \E item \in Entries(D.d[k]) : TagListLacksAll(item)
\* a filtered section has a record whose tag list is non-empty without "all"
HasFilteredItemLackingAll(D) ==
    D.t = "dict" /\ \E k \in DOMAIN D.d \cap Range(Sections) :
        \E item \in Entries(D.d[k]) : TagListLacksAll(item)

\* the first half of C8: {} for a falsy document, an equal copy for a
\* falsy profile
Passthrough ==
    op = "filter_resume_data" =>
        /\ (pc # "start" /\ ~TruthyTree(Input(resume_data)))
              => (pc = "done" /\ (~mutated => Output = PyDict(EmptyMap)))
        /\ (pc # "start" /\ TruthyTree(Input(resume_data)) /\ ~TruthyTree(Input(profile)))
              => (pc = "done" /\ (~mutated => Output = Input(resume_data)))

\* C8 as stated: {} for a falsy document; for a falsy profile an equal copy,
\* which differs from the result for ["all"] whenever the document has an
\* item whose tags lack "all"
C8_Original ==
    /\ Passthrough
    /\ (Returned("filter_resume_data") /\ ~TruthyTree(Input(profile))
            /\ HasItemLackingAll(Input(resume_data)))
         => ~Yields(FilteredWithAll, Output)

\* C8: {} for a falsy document; for a falsy profile an equal copy, which
\* differs from the result for ["all"] whenever one of the filtered sections
\* holds a record whose include_in is a non-empty list without "all"
C8_Passthrough ==
    /\ Passthrough
    /\ (Returned("filter_resume_data") /\ ~TruthyTree(Input(profile))
            /\ HasFilteredItemLackingAll(Input(resume_data)))
         => ~Yields(FilteredWithAll, Output)

\* C8 reached: without a profile a document with a record tagged only
\* "technical" in a filtered section has come back whole
C8_Witness ==
    /\ Returned("filter_resume_data")
    /\ Input(profile) = PyNone
    /\ HasFilteredItemLackingAll(Input(resume_data))
    /\ "work_experience" \in DOMAIN Input(resume_data).d
    /\ Output = Input(resume_data)

\* profile.filters as a mapping of trees, empty when the section is absent
ProfileFilters ==
    IF Input(profile).t = "dict" /\ "filters" \in DOMAIN Input(profile).d
    THEN Input(profile).d["filters"].d
    ELSE EmptyMap

\* max_bullets is filters.max_bullets_per_job, None when absent
LimitTaken ==
    max_bullets = IF "max_bullets_per_job" \in DOMAIN ProfileFilters
                  THEN ProfileFilters["max_bullets_per_job"] ELSE PyNone

\* a profile that names no filters gives what ["all"] without limit gives
NoFiltersIsAll ==
    (Returned("filter_resume_data") /\ SettingsRead /\ ProfileFilters = EmptyMap)
        => Yields(FilteredWithAll, Output)

C10_EmptyTags ==
    /\ (op = "filter_items"
            /\ (~TruthyTree(Input(include_tags)) \/ ~TruthyTree(Input(resume_data))))
         => /\ pc # "raised"
            /\ Returned("filter_items") => Output = PyList(<<>>)
    /\ (SettingsRead /\ "include_tags" \in DOMAIN ProfileFilters
            /\ ProfileFilters["include_tags"] = PyList(<<>>))
         => /\ Val(heap, include_tags) = PyList(<<>>)
            /\ pc # "raised"
            /\ Returned("filter_resume_data") =>
                  \A sec \in Range(Sections) \cap DOMAIN Output.d :
                      Output.d[sec] = IF sec = "work_experience"
                                      THEN PyDict(EmptyMap) ELSE PyList(<<>>)

\* C10 reached: with include_tags [] a document with positions, jobs,
\* projects and education entries has come back with all of them emptied
C10_Witness ==
    /\ Returned("filter_resume_data") /\ SettingsRead
    /\ Val(heap, include_tags) = PyList(<<>>)
    /\ {"work_experience", "work", "projects", "education"} \subseteq DOMAIN Output.d
    /\ NonEmptyList(Input(resume_data).d["education"])
    /\ Output.d["education"] = PyList(<<>>)
    /\ Output.d["work_experience"] = PyDict(EmptyMap)

\* the sections the filter never dispatches on
PassThroughSections == {"basics", "meta", "languages", "interests"}

\* C11: when a non-empty profile is applied to a document, each of the sections
\* basics, meta, languages and interests of the result equals the same
\* section of the document, whatever the tags and the bullet limit are
C11_PassThrough ==
    Returned("filter_resume_data") /\ SettingsRead =>
        \A k \in PassThroughSections \cap DOMAIN Input(resume_data).d :
            /\ k \in DOMAIN Output.d
            /\ Output.d[k] = Input(resume_data).d[k]

\* a document with the four sections, tagged entries among them, came back
\* with its education section cut down and the four sections as they were
C11_Witness ==
    /\ Returned("filter_resume_data") /\ SettingsRead
    /\ PassThroughSections \subseteq DOMAIN Input(resume_data).d
    /\ "education" \in DOMAIN Input(resume_data).d
    /\ Output.d["education"] # Input(resume_data).d["education"]
    /\ Val(heap, max_bullets) = PyInt(1)
    /\ \A k \in PassThroughSections : Output.d[k] = Input(resume_data).d[k]

\* the full document filtered with the profile of the call
FilteredTwin ==
    Then(Build(heap, FullDocument), LAMBDA h, d : filter_resume_data(h, d, profile))

\* the call returned, and the sections the document shares with the full
\* document came out as they do for the full document
SameElsewhere(r) ==
    /\ ~r.err
    /\ \A k \in DOMAIN FullDocument.d :
          Input(resume_data).d[k] = FullDocument.d[k]
              => k \in DOMAIN Output.d /\ Output.d[k] = Val(r.h, r.v).d[k]

\* C12: a section of the wrong shape never stops the call: it returns a
\* document, and every other section is filtered as it is when the
\* malformed section is well-formed
C12_SectionsIndependent ==
    (op = "filter_resume_data" /\ Input(resume_data) \in MalformedDocuments) =>
        /\ pc # "raised"
        /\ Returned("filter_resume_data") => SameElsewhere(FilteredTwin)

\* out is in under a strictly increasing choice of indices, entry by entry
\* related by R
IsSubseq(out, in, R(_, _)) ==
    \E f \in [1..Len(out) -> 1..Len(in)] :
        /\ \A i, j \in 1..Len(out) : i < j => f[i] < f[j]
        /\ \A i \in 1..Len(out) : R(out[i], in[f[i]])

Same(o, i) == o = i
Prefix(a, b) ==
    a.t = "list" /\ b.t = "list" /\ Len(a.l) <= Len(b.l) /\ a.l = SubSeq(b.l, 1, Len(a.l))
\* the record i, its bullet-bearing fields possibly cut to a prefix
Truncated(o, i) ==
    \/ o = i
    \/ /\ o.t = "dict" /\ i.t = "dict" /\ DOMAIN o.d = DOMAIN i.d
       /\ \A k \in DOMAIN i.d :
             \/ o.d[k] = i.d[k]
             \/ k \in {"responsibilities", "highlights"} /\ Prefix(o.d[k], i.d[k])

ItemsInOrder ==
    (Returned("filter_items") /\ Input(resume_data).t = "list")
        => Output.t = "list" /\ IsSubseq(Output.l, Input(resume_data).l, Same)
PositionsInOrder ==
    (Returned("filter_work_experience") /\ Input(resume_data).t = "dict")
        => \A c \in DOMAIN Output.d :
              /\ c \in DOMAIN Input(resume_data).d
              /\ Input(resume_data).d[c].t = "list"
              /\ IsSubseq(Output.d[c].l, Input(resume_data).d[c].l, Truncated)
JobsInOrder ==
    (Returned("filter_resume_data") /\ SettingsRead
        /\ "work" \in DOMAIN Input(resume_data).d
        /\ Input(resume_data).d["work"].t = "list")
        => /\ Output.d["work"].t = "list"
           /\ IsSubseq(Output.d["work"].l, Input(resume_data).d["work"].l, Truncated)

\* C13: what filter_items returns is its input with some entries left out,
\* the others in their original order, none invented or repeated; so are the
\* positions of each company and the flat work list, up to the cutting of
\* their bullet lists
C13_OrderPreserved == ItemsInOrder /\ PositionsInOrder /\ JobsInOrder

\* two different positions of a company were retained, in their order, with
\* bullets cut
C13_Witness ==
    /\ Returned("filter_work_experience") /\ Input(resume_data).t = "dict"
    /\ \E c \in DOMAIN Output.d :
          /\ Len(Output.d[c].l) = 2
          /\ Output.d[c].l[1] # Output.d[c].l[2]
          /\ Output.d[c].l # Input(resume_data).d[c].l

\* out is kept, entry by entry, up to the cutting of bullet lists
SameUpToCut(out, kept) ==
    /\ Len(out) = Len(kept)
    /\ \A i \in 1..Len(out) : Truncated(out[i], kept[i])

\* company c came out as the entries kept, or not at all if none was kept
CompanyKept(c, kept) ==
    IF kept = <<>> THEN c \notin DOMAIN Output.d
    ELSE c \in DOMAIN Output.d /\ SameUpToCut(Output.d[c].l, kept)

\* what filter_items returns for the list v of the caller and the tags of the call
ItemsKept(r) == IF r.err THEN <<>> ELSE Val(r.h, r.v).l

PositionsAsItems ==
    (Returned("filter_work_experience") /\ Input(resume_data).t = "dict") =>
        \A c \in DOMAIN Input(resume_data).d :
            Input(resume_data).d[c].t = "list" =>
                CompanyKept(c, ItemsKept(filter_items(loaded, Items(loaded, resume_data)[c],
                                                      include_tags)))
JobsAsItems ==
    (Returned("filter_resume_data") /\ SettingsRead
        /\ "work" \in DOMAIN Input(resume_data).d
        /\ Input(resume_data).d["work"].t = "list") =>
        SameUpToCut(Output.d["work"].l,
                    ItemsKept(filter_items(heap, Items(loaded, resume_data)["work"],
                                           include_tags)))

\* C14: the positions of a company and the jobs of the flat work list that
\* are retained are exactly the entries filter_items retains from the same
\* list with the same tags, for every shape of include_in and for scalar
\* entries
C14_SameRule == PositionsAsItems /\ JobsAsItems

(***************************************************************************)
(* Properties of the validator                                             *)
(***************************************************************************)
\* the work_experience value w is not a mapping of companies to lists
MalformedWork(w) == w.t # "dict" \/ \E c \in DOMAIN w.d : w.d[c].t # "list"

\* w without the companies that do not map to a list
ListCompanies(w) == PyDict([c \in {k \in DOMAIN w.d : w.d[k].t = "list"} |-> w.d[c]])

\* the filter dropped what is malformed and treated the rest as if it were
\* all there is
DroppedSilently(w) ==
    IF w.t # "dict" THEN Output = PyDict(EmptyMap)
    ELSE Yields(Then(Build(heap, ListCompanies(w)),
                     LAMBDA h, v : filter_work_experience(h, v, include_tags, max_bullets)),
                Output)

HasError(r, path) == \E i \in 1..Len(r.res.errors) : r.res.errors[i].field_path = path

\* validate_file returned for the document and reported each defect of w
ReportedAsErrors(w, r) ==
    /\ ~r.err
    /\ w.t # "dict" => HasError(r, "work_experience")
    /\ w.t = "dict" =>
          \A c \in DOMAIN w.d : w.d[c].t # "list" => HasError(r, "work_experience." \o c)

\* the document with w as its work_experience, validated by a new validator
ValidationOf(w) ==
    validate_file(ValidationResult,
                  Loaded(PyDict(Field("basics", GoodBasics) @@ Field("work_experience", w))))

\* C15: for a work_experience that is not a mapping, or has a company that
\* does not map to a list, filter_work_experience raises nothing, drops the
\* malformed part ({} for a non-mapping) and filters the other companies as
\* usual, and validating the same document reports the defect as an error
C15_SeparateChannels ==
    (op = "filter_work_experience" /\ MalformedWork(Input(resume_data))) =>
        /\ pc # "raised"
        /\ Returned("filter_work_experience") =>
              /\ DroppedSilently(Input(resume_data))
              /\ ReportedAsErrors(Input(resume_data), ValidationOf(Input(resume_data)))

\* the filter's half of C15
C15_FilterSide ==
    (op = "filter_work_experience" /\ MalformedWork(Input(resume_data))) =>
        /\ pc # "raised"
        /\ Returned("filter_work_experience") => DroppedSilently(Input(resume_data))

\* C16: validate_file never lets an exception escape, whatever the shape of
\* the document
C16_NeverRaises == op = "validate_file" => pc # "raised"

\* what the last call added to self.result.errors
CallErrors == SubSeq(self_result.errors, errors_before + 1, Len(self_result.errors))
CallPaths == {CallErrors[i].field_path : i \in 1..Len(CallErrors)}

\* the position of a document of ThreeDefects that has the defects: the
\* last one of company A
DefectIndex(d) == Len(d.d["work_experience"].d["A"].l) - 1
DefectDate(d) ==
    CHOOSE f \in {"start_date", "end_date"} :
        d.d["work_experience"].d["A"].l[DefectIndex(d) + 1].d[f] = PyStr("01/2023")

\* C17: for a document without basics.email whose one position has an
\* invalid date and an unknown tag, the call records exactly three errors:
\* one at basics, one at the date of the position, one at its include_in
C17_CollectAll ==
    (op = "validate_file" /\ pc \in {"done", "raised"} /\ file.data \in ThreeDefects) =>
        /\ pc = "done"
        /\ Len(CallErrors) = 3
        /\ Len(self_result.errors) = 3
        /\ CallPaths =
             {"basics",
              Indexed("work_experience.A", DefectIndex(file.data)) \o "."
                  \o DefectDate(file.data),
              Indexed("work_experience.A", DefectIndex(file.data)) \o ".include_in"}

\* the defects sit on the second position, after one with nothing to report
C17_Witness ==
    /\ op = "validate_file" /\ pc = "done" /\ file.data \in ThreeDefects
    /\ DefectIndex(file.data) = 1
    /\ DefectDate(file.data) = "end_date"
    /\ Len(CallErrors) = 3

\* C18: the result of validating a document with nothing to report holds no
\* error, also when the validator has validated a defective document before
C18_FreshResult ==
    (op = "validate_file" /\ pc = "done" /\ file = Loaded(CleanDocument)) =>
        self_result.errors = <<>>

\* how many errors of the last call say that field is missing at path
MissingCount(path, field) ==
    Cardinality({i \in 1..Len(CallErrors) :
        CallErrors[i] = ValidationMessage(path, "Missing required field: " \o field)})

\* one error at path for each field of required the record lacks, none for
\* the fields it has
OnePerAbsent(rec, path, required) ==
    \A f \in Range(required) :
        MissingCount(path, f) = IF f \in DOMAIN rec.d THEN 0 ELSE 1

\* the same for every record among the entries of a list section
OnePerAbsentIn(section, name, required) ==
    section.t = "list" =>
        \A i \in 1..Len(section.l) :
            section.l[i].t = "dict" =>
                OnePerAbsent(section.l[i], Indexed(name, i - 1), required)

BasicsPresence ==
    ("basics" \in DOMAIN file.data.d /\ file.data.d["basics"].t = "dict") =>
        OnePerAbsent(file.data.d["basics"], "basics", <<"name", "email">>)
PositionsPresence ==
    ("work_experience" \in DOMAIN file.data.d /\ file.data.d["work_experience"].t = "dict") =>
        \A c \in DOMAIN file.data.d["work_experience"].d :
            OnePerAbsentIn(file.data.d["work_experience"].d[c], "work_experience." \o c,
                           <<"job_title", "location", "start_date", "end_date">>)
EducationPresence ==
    "education" \in DOMAIN file.data.d =>
        OnePerAbsentIn(file.data.d["education"], "education",
                       <<"institution", "area", "studyType", "startDate", "endDate">>)
CertificationsPresence ==
    "certifications" \in DOMAIN file.data.d =>
        OnePerAbsentIn(file.data.d["certifications"], "certifications",
                       <<"title", "date", "url">>)

\* a call that has returned for a document that is a mapping
ValidatedMapping ==
    op = "validate_file" /\ pc = "done" /\ file.error = "none" /\ file.data.t = "dict"

\* C19: for the basics mapping, every position, every education entry and
\* every certification of the document, the call records exactly one error
\* per required field the record lacks, at the dotted path of the record
C19_FieldPresence ==
    ValidatedMapping =>
        BasicsPresence /\ PositionsPresence /\ EducationPresence /\ CertificationsPresence

\* C19 without the basics mapping
C19_Entries ==
    ValidatedMapping => PositionsPresence /\ EducationPresence /\ CertificationsPresence

\* the value tv of include_in is not a list, is empty, or has a member
\* outside the vocabulary
OutsideVocabulary(tv) ==
    \/ tv.t # "list"
    \/ tv.l = <<>>
    \/ \E m \in Range(tv.l) : m.t # "str" \/ m.s \notin Range(ALLOWED_INCLUDE_IN_TAGS)
\* "all" together with other tags, all of them of the vocabulary
AllAmongOthers(tv) ==
    /\ ~OutsideVocabulary(tv)
    /\ ALL \in Range(tv.l)
    /\ \E m \in Range(tv.l) : m # ALL

ErrorAt(path) == \E i \in 1..Len(self_result.errors) : self_result.errors[i].field_path = path
WarningAt(path) ==
    \E i \in 1..Len(self_result.warnings) : self_result.warnings[i].field_path = path

\* what the first call of a validator says about include_in at path
Verdict(tv, path) ==
    /\ pc = "done"
    /\ ErrorAt(path) <=> OutsideVocabulary(tv)
    /\ (WarningAt(path) /\ ~ErrorAt(path)) <=> AllAmongOthers(tv)
    /\ (~OutsideVocabulary(tv) /\ ~AllAmongOthers(tv)) => ~ErrorAt(path) /\ ~WarningAt(path)

EducationTagged(tv) ==
    PyDict(Field("basics", GoodBasics)
           @@ Field("education", PyList(<<With(GoodEducation, "include_in", tv)>>)))
PositionTagged(tv) ==
    PyDict(Field("basics", GoodBasics)
           @@ Field("work_experience",
                    PyDict(Field("A", PyList(<<With(GoodPosition, "include_in", tv)>>)))))

\* C20: for every include_in on a validated record there is an error when
\* it is not a list, is empty or has a member outside the vocabulary; a
\* warning and no error exactly when "all" stands with other tags of the
\* vocabulary; neither for any other non-empty list over the vocabulary
C20_TagVocabulary ==
    (op = "validate_file" /\ calls = 1 /\ file.error = "none") =>
        \A tv \in IncludeInShapes :
            /\ file.data = EducationTagged(tv) => Verdict(tv, "education[0].include_in")
            /\ file.data = PositionTagged(tv) => Verdict(tv, "work_experience.A[0].include_in")

\* main has exited after a validate_file that returned its result
Decided == op = "validate_file" /\ pc = "done" /\ exit_code # -1

ErrorsAt(path) == Cardinality({i \in 1..Len(CallErrors) : CallErrors[i].field_path = path})

\* the first call of a validator has ended, on a document that is a mapping
FirstValidation ==
    op = "validate_file" /\ calls = 1 /\ exit_code = -1 /\ file.error = "none"
    /\ file.data.t = "dict"

NoBasics == "basics" \notin DOMAIN file.data.d
HasWork == "work_experience" \in DOMAIN file.data.d
Work == file.data.d["work_experience"]

\* one error at root for a document without basics
RootReported == NoBasics => ErrorsAt("root") = 1
\* one error at work_experience.<company> for each company that is no list
CompaniesReported ==
    (HasWork /\ Work.t = "dict") =>
        \A c \in DOMAIN Work.d : Work.d[c].t # "list" => ErrorsAt("work_experience." \o c) = 1
\* the companies that are lists and the education section are validated as
\* they are in a document without the structural defect
TraversalContinues ==
    /\ (HasWork /\ Work.t = "dict") =>
          \A c \in DOMAIN Work.d :
              Work.d[c] = PyList(<<ShortPosition>>) =>
                  ErrorsAt(Indexed("work_experience." \o c, 0)) = 2
    /\ ("education" \in DOMAIN file.data.d
        /\ file.data.d["education"] = PyList(<<ShortEducation>>)) =>
          ErrorsAt("education[0]") = 3

\* C22: a document without basics gets exactly one error at root; a
\* work_experience that is not a mapping gets exactly one error at
\* work_experience; each company that is not a list gets exactly one error at
\* work_experience.<company>; the other companies and the later sections are
\* validated all the same
C22_StructuralPass ==
    FirstValidation =>
        /\ RootReported
        /\ (HasWork /\ Work.t # "dict") => ErrorsAt("work_experience") = 1
        /\ CompaniesReported
        /\ TraversalContinues

\* the same with the truth value of work_experience taken into account: a
\* falsy work_experience is passed over
StructuralPassTruthy ==
    FirstValidation =>
        /\ file.data \in StructuralDocuments => pc = "done"
        /\ RootReported
        /\ (HasWork /\ Work.t # "dict") =>
              ErrorsAt("work_experience") = IF Falsy(Work) THEN 0 ELSE 1
        /\ CompaniesReported
        /\ TraversalContinues

\* load_profile was called and is over
Loaded_ == op = "load_profile" /\ pc \in {"done", "raised"}

\* the mapping m has a filters section that is a mapping with include_tags
HasIncludeTags(m) ==
    /\ m.t = "dict"
    /\ "filters" \in DOMAIN m.d
    /\ m.d["filters"].t = "dict"
    /\ "include_tags" \in DOMAIN m.d["filters"].d

\* m is the mapping d with the two defaults filled in where d lacks them
\* and nothing else changed
FilledIn(d, m) ==
    /\ HasIncludeTags(m)
    /\ DOMAIN m.d = DOMAIN d.d \cup {"filters"}
    /\ \A k \in DOMAIN d.d \ {"filters"} : m.d[k] = d.d[k]
    /\ IF "filters" \notin DOMAIN d.d
       THEN m.d["filters"] = PyDict(Field("include_tags", PyList(<<ALL>>)))
       ELSE /\ d.d["filters"].t = "dict"
            /\ DOMAIN m.d["filters"].d = DOMAIN d.d["filters"].d \cup {"include_tags"}
            /\ \A k \in DOMAIN d.d["filters"].d : m.d["filters"].d[k] = d.d["filters"].d[k]
            /\ "include_tags" \notin DOMAIN d.d["filters"].d =>
                  m.d["filters"].d["include_tags"] = PyList(<<ALL>>)

\* C23: load_profile returns the file's mapping with filters and
\* include_tags filled in where absent and everything given left as it was,
\* or raises ProfileNotFoundError when there is no file at the path, or
\* InvalidProfileError when the file is unparsable, empty or not a mapping;
\* nothing else escapes, whatever the file holds under filters
C23_LoadProfile ==
    Loaded_ =>
        CASE file.error = "FileNotFoundError" -> returned = Raises("ProfileNotFoundError")
          [] file.error = "YAMLError" -> returned = Raises("InvalidProfileError")
          [] file.data.t # "dict" -> returned = Raises("InvalidProfileError")
          [] OTHER -> returned.kind = "return" /\ FilledIn(file.data, returned.value)

\* the same for the files whose filters section is absent or a mapping
LoadProfileOfMappings ==
    (Loaded_ /\ file.error = "none" /\ file.data.t = "dict"
     /\ ("filters" \in DOMAIN file.data.d => file.data.d["filters"].t = "dict")) =>
        returned.kind = "return" /\ FilledIn(file.data, returned.value)

\* the outcome of the call on the profile prof when nothing else runs
Alone(prof) == filter_resume_data(loaded, resume_data, prof)
SameOutcome(r, at, res) ==
    /\ at = "raised" <=> r.err
    /\ at = "done" => Val(heap, res) = Val(r.h, r.v)

\* two calls are under way or over
Twice == op = "filter_resume_data" /\ other # PyNone

\* C24: with the steps of two calls on the same document interleaved in any
\* order, the document stays as it was in every state, each call ends as it
\* ends when it runs alone and with the same result, and the two results
\* have no container in common with each other or with the document
C24_Concurrent ==
    Twice =>
        /\ Val(heap, resume_data) = Input(resume_data)
        /\ pc \in {"done", "raised"} => SameOutcome(Alone(profile), pc, result)
        /\ other.pc \in {"done", "raised"} =>
              SameOutcome(Alone(other.profile), other.pc, other.result)
        /\ (pc = "done" /\ other.pc = "done") =>
              /\ Reach(heap, result) \cap Reach(heap, other.result) = {}
              /\ Reach(heap, result) \cap Reach(heap, resume_data) = {}
              /\ Reach(heap, other.result) \cap Reach(heap, resume_data) = {}

\* both calls have returned, after steps of the second call fell between
\* steps of the first; the profiles differ and so do the results
C24_Witness ==
    /\ Twice
    /\ pc = "done" /\ other.pc = "done"
    /\ Val(heap, result) # Val(heap, other.result)
    /\ Val(heap, result) # Input(resume_data)
    /\ other.overlap
    /\ Reach(heap, result) # {} /\ Reach(heap, other.result) # {}

\* validate_profile has returned; Arg is the profile it was given
ValidatedProfile == op = "validate_profile" /\ pc = "done"
Arg == Input(profile)

\* the defects the profile p, a non-empty mapping, may have
NoProfileSection == "profile" \notin DOMAIN Arg.d
NoProfileName ==
    /\ "profile" \in DOMAIN Arg.d
    /\ Arg.d["profile"].t = "dict" => "name" \notin DOMAIN Arg.d["profile"].d
FiltersMapping == "filters" \in DOMAIN Arg.d /\ Arg.d["filters"].t = "dict"
TagsNotList ==
    /\ FiltersMapping
    /\ "include_tags" \in DOMAIN Arg.d["filters"].d
    /\ Arg.d["filters"].d["include_tags"].t # "list"
MaxNotInteger ==
    /\ FiltersMapping
    /\ "max_bullets_per_job" \in DOMAIN Arg.d["filters"].d
    /\ Arg.d["filters"].d["max_bullets_per_job"].t \notin {"none", "int"}

\* C25: validate_profile returns is_valid = True exactly when it returns no
\* errors; it returns an error for a falsy profile, for one that is not a
\* mapping, for a missing profile section, a missing profile.name, an
\* include_tags that is not a list and a max_bullets_per_job that is neither
\* None nor an integer; a profile with a name and no filters section is valid
C25_ValidateProfile ==
    ValidatedProfile =>
        /\ returned.is_valid <=> returned.errors = <<>>
        /\ (Falsy(Arg) \/ Arg.t # "dict") => Len(returned.errors) >= 1
        /\ (~Falsy(Arg) /\ Arg.t = "dict") =>
              /\ (NoProfileSection \/ NoProfileName \/ TagsNotList \/ MaxNotInteger) =>
                    Len(returned.errors) >= 1
              /\ ("filters" \notin DOMAIN Arg.d /\ ~NoProfileSection /\ ~NoProfileName) =>
                    returned.is_valid

\* a named profile whose only defect is the type of max_bullets_per_job has
\* been rejected
C25_Witness ==
    /\ ValidatedProfile
    /\ ~Falsy(Arg) /\ Arg.t = "dict"
    /\ ~NoProfileSection /\ ~NoProfileName /\ ~TagsNotList /\ MaxNotInteger
    /\ ~returned.is_valid
    /\ Len(returned.errors) = 1

\* the tag rule on the include_in of the record at path, when it has one:
\* an error iff the value is outside the vocabulary
TagRule(rec, path) ==
    "include_in" \in DOMAIN rec.d =>
        (ErrorsAt(path \o ".include_in") >= 1 <=> OutsideVocabulary(rec.d["include_in"]))

\* the entry with number i of a list of bullets at path is validated
BulletChecked(b, path) ==
    /\ b.t = "str" => ErrorsAt(path) = 0
    /\ (b.t = "dict" /\ "description" \in DOMAIN b.d) => ErrorsAt(path) = 0
    /\ (b.t = "dict" /\ "description" \notin DOMAIN b.d) =>
          \E i \in 1..Len(CallErrors) :
              /\ CallErrors[i].field_path = path
              /\ CallErrors[i].message \in
                    {"Responsibility object must have 'description' field",
                     "Highlight object must have 'description' field"}
    /\ b.t \notin {"str", "dict"} => ErrorsAt(path) >= 1
    /\ b.t = "dict" => TagRule(b, path)

\* every entry of the bullet field of the record, when it is a list
BulletsChecked(rec, field, path) ==
    (rec.t = "dict" /\ field \in DOMAIN rec.d /\ rec.d[field].t = "list") =>
        \A i \in 1..Len(rec.d[field].l) :
            BulletChecked(rec.d[field].l[i], Indexed(path \o "." \o field, i - 1))

\* every sub-project of the position, when they are records in a list
SubProjectsChecked(pos, path) ==
    (pos.t = "dict" /\ "projects" \in DOMAIN pos.d /\ pos.d["projects"].t = "list") =>
        \A i \in 1..Len(pos.d["projects"].l) :
            pos.d["projects"].l[i].t = "dict" =>
                /\ OnePerAbsent(pos.d["projects"].l[i], Indexed(path \o ".projects", i - 1),
                                <<"name", "description">>)
                /\ TagRule(pos.d["projects"].l[i], Indexed(path \o ".projects", i - 1))

\* the positions of the document, company by company
PositionsNested(Checked(_, _)) ==
    (HasWork /\ Work.t = "dict") =>
        \A c \in DOMAIN Work.d :
            Work.d[c].t = "list" =>
                \A i \in 1..Len(Work.d[c].l) :
                    Checked(Work.d[c].l[i], Indexed("work_experience." \o c, i - 1))

ResponsibilitiesChecked ==
    PositionsNested(LAMBDA pos, path : BulletsChecked(pos, "responsibilities", path))
PositionHighlightsChecked ==
    PositionsNested(LAMBDA pos, path : BulletsChecked(pos, "highlights", path))
ProjectHighlightsChecked ==
    ("projects" \in DOMAIN file.data.d /\ file.data.d["projects"].t = "list") =>
        \A i \in 1..Len(file.data.d["projects"].l) :
            BulletsChecked(file.data.d["projects"].l[i], "highlights", Indexed("projects", i - 1))

\* the first call of a validator has returned for a document that is a mapping
FirstReturned == FirstValidation /\ pc = "done"

\* C27: in responsibilities and highlights of a position and in highlights
\* of a project, a string and a record with description are accepted, a
\* record without description and an entry that is neither get an error, a
\* record's include_in is held to the tag vocabulary; the sub-projects of a
\* position are checked for name and description and with the same tag rule
C27_NestedPasses ==
    FirstReturned =>
        /\ ResponsibilitiesChecked
        /\ PositionHighlightsChecked
        /\ ProjectHighlightsChecked
        /\ PositionsNested(SubProjectsChecked)

\* what holds of the nested passes: responsibilities and sub-projects
NestedPassesRun ==
    FirstReturned => ResponsibilitiesChecked /\ PositionsNested(SubProjectsChecked)

\* YYYY, YYYY-MM or YYYY-MM-DD in digits, or Present
OfDateForm(cs) ==
    \/ cs = <<"P", "r", "e", "s", "e", "n", "t">>
    \/ /\ Len(cs) \in {4, 7, 10}
       /\ \A i \in 1..Len(cs) : IF i \in {5, 8} THEN cs[i] = "-" ELSE cs[i] \in Digit
WellFormedDate(s) == OfDateForm(Chars(s))

\* the date under field of the record at path, when there is one: no error
\* for a good string, one error for anything else
DateChecked(rec, field, path, Good(_)) ==
    field \in DOMAIN rec.d =>
        ErrorsAt(path \o "." \o field) =
            IF rec.d[field].t = "str" /\ Good(rec.d[field].s) THEN 0 ELSE 1

\* the same for the date fields of every record of a list section
DatesCheckedIn(name, fields, Good(_)) ==
    (name \in DOMAIN file.data.d /\ file.data.d[name].t = "list") =>
        \A i \in 1..Len(file.data.d[name].l) :
            file.data.d[name].l[i].t = "dict" =>
                \A f \in fields :
                    DateChecked(file.data.d[name].l[i], f, Indexed(name, i - 1), Good)

\* and for every position, education entry, award, certification, project
\* and volunteer entry of the document
DatesChecked(Good(_)) ==
    /\ PositionsNested(LAMBDA pos, path :
          pos.t = "dict" =>
              \A f \in {"start_date", "end_date"} : DateChecked(pos, f, path, Good))
    /\ DatesCheckedIn("education", {"startDate", "endDate"}, Good)
    /\ DatesCheckedIn("awards", {"date"}, Good)
    /\ DatesCheckedIn("certifications", {"date"}, Good)
    /\ DatesCheckedIn("projects", {"startDate", "endDate"}, Good)
    /\ DatesCheckedIn("volunteer", {"startDate", "endDate"}, Good)

\* C26: each date field present on a position, education entry, award,
\* certification, project or volunteer entry gets no error when its value is
\* a string of the form YYYY, YYYY-MM, YYYY-MM-DD or Present, and exactly one
\* error at the field's path otherwise, a value that is no string included
C26_DateFormat == FirstReturned => DatesChecked(WellFormedDate)

\* the same with the strings that DATE_REGEX matches as the good ones
DatesMatched == FirstReturned => DatesChecked(DATE_REGEX)

\* C28: for a non-empty document and a non-empty profile the result has
\* exactly the section keys of the document, a section emptied by filtering
\* included, and every section that is not one of the nine dispatched names
\* equals its input value, tagged entries or not
C28_SameSections ==
    (Returned("filter_resume_data") /\ SettingsRead) =>
        /\ DOMAIN Output.d = DOMAIN Input(resume_data).d
        /\ \A k \in DOMAIN Input(resume_data).d \ Range(Sections) :
              Output.d[k] = Input(resume_data).d[k]

\* a document with a tagged volunteer entry came back with education empty
\* and still present, and with volunteer as it was
C28_Witness ==
    /\ Returned("filter_resume_data") /\ SettingsRead
    /\ "volunteer" \in DOMAIN Input(resume_data).d
    /\ \E i \in 1..Len(Input(resume_data).d["volunteer"].l) :
         /\ Input(resume_data).d["volunteer"].l[i].t = "dict"
         /\ "include_in" \in DOMAIN Input(resume_data).d["volunteer"].l[i].d
    /\ Output.d["volunteer"] = Input(resume_data).d["volunteer"]
    /\ "education" \in DOMAIN Input(resume_data).d
    /\ Input(resume_data).d["education"] # PyList(<<>>)
    /\ Output.d["education"] = PyList(<<>>)
    /\ "work_experience" \in DOMAIN Input(resume_data).d
    /\ Input(resume_data).d["work_experience"] # PyDict(EmptyMap)
    /\ Output.d["work_experience"] = PyDict(EmptyMap)

(***************************************************************************)
(* filter_items in the requested tags                                      *)
(***************************************************************************)
\* tag lists to compare with the one of the call: repeated, reordered,
\* fewer and other tags
RequestedLists ==
    {PyList(<<>>), PyList(<<TECH>>), PyList(<<TECH, TECH>>), PyList(<<ALL>>),
     PyList(<<ALL, ALL>>), PyList(<<TECH, ALL>>), PyList(<<ALL, TECH>>),
     PyList(<<ALL, TECH, ALL>>), PyList(<<LEAD>>), PyList(<<LEAD, TECH>>)}

TagSet(t) == Range(t.l)

\* filter_items on the items of the call and the tag list T
Refiltered(T) ==
    Then(Build(loaded, T), LAMBDA h, t : filter_items(h, resume_data, t))

Retained(r) == Val(r.h, r.v)
Fewer(r) == ~r.err /\ IsSubseq(Retained(r).l, Output.l, Same)
Equal(r) == ~r.err /\ Retained(r) = Output
Shorter(r) == ~r.err /\ Len(Retained(r).l) < Len(Output.l)

\* C29: for all item lists and tag lists T, T' with set(T) a subset of
\* set(T'), filter_items(items, T) is a subsequence of
\* filter_items(items, T'); two tag lists with the same set of members give
\* equal results
C29_Monotone ==
    (Returned("filter_items") /\ Input(include_tags).t = "list")
    => \A T \in RequestedLists :
         /\ TagSet(T) \subseteq TagSet(Input(include_tags)) => Fewer(Refiltered(T))
         /\ TagSet(T) = TagSet(Input(include_tags)) => Equal(Refiltered(T))

\* a call with two tags that retained more than the call with one of them,
\* and as much as the call with the tags repeated and reordered
C29_Witness ==
    /\ Returned("filter_items")
    /\ Input(include_tags) = PyList(<<TECH, ALL>>)
    /\ Output.l # <<>>
    /\ Shorter(Refiltered(PyList(<<TECH>>)))
    /\ Shorter(Refiltered(PyList(<<ALL>>)))
    /\ Equal(Refiltered(PyList(<<ALL, TECH, ALL>>)))

(***************************************************************************)
(* get_profile_info and the filter applied                                 *)
(***************************************************************************)
\* the filter has returned and the summary has been made
Summarised ==
    /\ op = "filter_resume_data" /\ pc = "done"
    /\ returned # PyNone /\ returned.kind = "return"

Info == returned.value

\* a profile whose filters are exactly those of the summary info
Described(info) ==
    PyDict(Field("filters",
                 PyDict(Field("include_tags", info.d["include_tags"])
                        @@ Field("max_bullets_per_job", info.d["max_bullets_per_job"]))))

\* filter_resume_data on the document of the call and the profile p
Refilter(p) ==
    Then(LoadArgs(Input(resume_data), p),
         LAMBDA h, a : filter_resume_data(h, a[1], a[2]))

AsReturned(r) == ~r.err /\ Val(r.h, r.v) = Output

\* the filters section as get_profile_info reads it
FiltersOf(prof) == get(prof, "filters", PyDict(EmptyMap))

\* include_tags ['all'] and max_bullets_per_job None when they are absent
DefaultsReported ==
    /\ "include_tags" \notin DOMAIN FiltersOf(Input(profile)).d
       => Info.d["include_tags"] = PyList(<<ALL>>)
    /\ "max_bullets_per_job" \notin DOMAIN FiltersOf(Input(profile)).d
       => Info.d["max_bullets_per_job"] = PyNone

\* C30 as stated: for every profile P, the empty mapping included,
\* filter_resume_data(D, P) equals the result of filtering D with a profile
\* whose filters are the include_tags and max_bullets_per_job reported by
\* get_profile_info(P), which reports ['all'] and None when they are absent
C30_EveryProfile ==
    Summarised => AsReturned(Refilter(Described(Info))) /\ DefaultsReported

\* C30, amended: the same for every profile P that is not empty; for every
\* profile, the empty mapping included, get_profile_info reports ['all'] and
\* None when they are absent
C30_DescribesFilter ==
    Summarised =>
        /\ Input(profile) # PyDict(EmptyMap)
           => AsReturned(Refilter(Described(Info)))
        /\ DefaultsReported

\* a profile with a bare tag and a limit, summarised after its filter took
\* entries and bullets out of the document
C30_Witness ==
    /\ Summarised
    /\ FiltersOf(Input(profile)) =
           PyDict(Field("include_tags", TECH) @@ Field("max_bullets_per_job", PyInt(1)))
    /\ Info.d["include_tags"] = TECH
    /\ Output # Input(resume_data)
    /\ AsReturned(Refilter(Described(Info)))

====
